---- MODULE Spec2Model ----
(***************************************************************************)
(* Model of the refresh pipeline of the realtime aggregator:               *)
(*   app/services/fetcher.py  per-source circuit breaker and fetch_sources *)
(*   app/cache.py             stale-while-revalidate cache primitives      *)
(*   app/repositories/records.py   upsert_source, source_summary           *)
(*   app/services/aggregator.py    refresh_data, get_aggregate_summary     *)
(*   app/services/scheduler.py     the auto_refresh job                    *)
(* Specification Spec is the fetcher with its breaker, SpecCache the cache *)
(* reads and writes over the key-value store, SpecInvalidate the same with *)
(* invalidate_pattern next to them, SpecUpsert the reconciler on one       *)
(* source, SpecRefresh refresh_data from the fetched outcomes to its       *)
(* summary, SpecConcurrent a manual and a scheduled refresh_data in        *)
(* transactions of their own, SpecRead the aggregate reads next to         *)
(* committing refreshes, SpecKey build_key on sequences of parts,          *)
(* SpecSources refresh_data over two URLs with the same last segment.      *)
(* SpecFair and SpecReadFair are the fetcher and the aggregate reads with  *)
(* the fairness of the event loop.                                         *)
(***************************************************************************)
EXTENDS Integers, Sequences, FiniteSets, Bags, TLC

(***************************************************************************)
(* Bounds of the model                                                     *)
(***************************************************************************)
\* seconds the clock advances in one Tick
TimeStep == 30
\* the clock stops advancing here
MaxTime == 90
\* the longest list of records one response holds
MaxFetchLen == 2
\* the most rows the store is let grow to
MaxRows == 3
\* the most audit entries the log is let grow to
MaxAudits == 4
\* the length of a clock step while aggregates are read, in seconds
ReadStep == 150
\* the last instant of that clock
MaxReadTime == 450
\* the get_aggregate_summary calls of a behaviour
MaxReads == 3
\* the revalidation tasks that can be pending at once
MaxTasks == 2
\* the refreshes that commit while aggregates are read
MaxCommits == 2
\* reads and commits in the specification with fairness
MaxFairReads == 2
MaxFairCommits == 1
\* the parts of a build_key call
MaxParts == 2

(***************************************************************************)
(* Program constants and configuration                                     *)
(***************************************************************************)
FAILURE_THRESHOLD == 3
RECOVERY_SECONDS == 60
MAX_RETRIES == 3
\* settings.CONCURRENCY_LIMIT (default 10), configured to 1 here so that a
\* call over two sources has to queue on its semaphore
CONCURRENCY_LIMIT == 1

\* A URL is its sequence of path segments: "https://h/posts" is <<"h", "posts">>
U1 == <<"h", "posts">>
U2 == <<"h", "users">>
\* "https://g/posts": another host, the same last segment as U1
U3 == <<"g", "posts">>

Urls == {U1, U2, U3}

\* the refreshes that can run at the same time: POST /refresh spawns a
\* background task per request and the scheduler runs its own job
Callers == {"manual", "scheduler"}

\* The deployments explored: settings.DATA_SOURCES and who refreshes.
\*   two sources refreshed by one caller at a time,
\*   one source refreshed by two callers at the same time
Configs ==
    { [sources |-> <<U1, U2>>, callers |-> {"manual"}],
      [sources |-> <<U1>>,     callers |-> Callers] }

None == "<None>"

VARIABLES
    cfg,        \* the deployment: settings.DATA_SOURCES and the active callers
    now,        \* time.monotonic(), in seconds
    circuit,    \* fetcher._circuit: url -> [failures, opened_at]
    callPc,     \* per caller: "idle" or "gathering" (inside fetch_sources)
    sem,        \* per caller: free slots of the semaphore of its fetch_sources call
    task,       \* per caller and source index: the _guarded coroutine
    last,       \* what the last step did (a breaker call, a return), for the properties
    nfail,      \* per url: _record_failure calls since its state was absent
    trippedAt,  \* per url: time of the _record_failure call that made nfail the threshold
    probe       \* per url: the task let through by the half-open transition

fetchVars == <<cfg, now, circuit, callPc, sem, task, last, nfail, trippedAt, probe>>

VARIABLES
    pool,       \* cache._pool: "uninitialised", "ready" or "closed" (None unless ready)
    redis,      \* the backing store as seen from the process: "up" or "down"
    store,      \* the keys of the backing store: key -> [val, exp]
    scan,       \* the running invalidate_pattern, if any
    lastSet     \* per cache key: the cache_set that wrote it last, if nothing touched it since

cacheVars == <<pool, redis, store, scan, lastSet>>

VARIABLES
    table,      \* the committed rows of data_records, a bag
    fetched,    \* the url and records a caller of upsert_source holds, if any
    tx,         \* per caller: the rows its session sees inside its open transaction
    audits,     \* the committed rows of fetch_audits, oldest first
    rf,         \* per caller: where its refresh_data stands
    instances,  \* the running instances of the job auto_refresh
    prev        \* the refresh that returned last: its outcomes and the rows it left

VARIABLES
    rd,         \* the running get_aggregate_summary call, if any
    rv,         \* the _revalidate_aggregate tasks, by slot
    stats       \* cache._stats: hits, misses, stale_hits

readVars == <<rd, rv, stats>>

dbVars == <<table, fetched, tx, audits, rf, instances, prev, readVars>>

vars == <<fetchVars, cacheVars, dbVars>>

DATA_SOURCES == cfg.sources
Idx == 1..Len(DATA_SOURCES)
MaxIdx == 1..2

(***************************************************************************)
(* Circuit breaker (fetcher.py 20-61)                                      *)
(***************************************************************************)
IsOpenRet(circ, url, t) ==
    IF url \notin DOMAIN circ THEN FALSE
    ELSE IF circ[url].failures >= FAILURE_THRESHOLD
         THEN t - circ[url].opened_at < RECOVERY_SECONDS
         ELSE FALSE

\* an _is_open that restarts the recovery window whenever it answers true
IsOpenCircuit_RejectionExtends(circ, url, t) ==
    IF url \in DOMAIN circ /\ circ[url].failures >= FAILURE_THRESHOLD
    THEN IF t - circ[url].opened_at < RECOVERY_SECONDS
         THEN [circ EXCEPT ![url].opened_at = t]
         ELSE [circ EXCEPT ![url].failures = FAILURE_THRESHOLD - 1]
    ELSE circ

\* the state _is_open leaves behind: only the half-open transition writes
IsOpenCircuit(circ, url, t) ==
    IF /\ url \in DOMAIN circ
       /\ circ[url].failures >= FAILURE_THRESHOLD
       /\ ~(t - circ[url].opened_at < RECOVERY_SECONDS)
    THEN [circ EXCEPT ![url].failures = FAILURE_THRESHOLD - 1]
    ELSE circ

\* the trip timestamp written only above the threshold
RecordFailure_StrictThreshold(circ, url, t) ==
    LET st == IF url \in DOMAIN circ THEN circ[url]
              ELSE [failures |-> 0, opened_at |-> 0]
        f  == st.failures + 1
    IN  (url :> [failures  |-> f,
                 opened_at |-> IF f > FAILURE_THRESHOLD THEN t ELSE st.opened_at])
        @@ circ

RecordFailure(circ, url, t) ==
    LET st == IF url \in DOMAIN circ THEN circ[url]
              ELSE [failures |-> 0, opened_at |-> 0]
        f  == st.failures + 1
    IN  (url :> [failures  |-> f,
                 opened_at |-> IF f >= FAILURE_THRESHOLD THEN t ELSE st.opened_at])
        @@ circ

\* a success that takes one failure back instead of clearing the state
RecordSuccess_Decrement(circ, url) ==
    IF url \in DOMAIN circ /\ circ[url].failures > 1
    THEN [circ EXCEPT ![url].failures = @ - 1]
    ELSE [u \in DOMAIN circ \ {url} |-> circ[u]]

\* a success that leaves the state of the url as it is
RecordSuccess_KeepsState(circ, url) == circ

RecordSuccess(circ, url) ==
    [u \in DOMAIN circ \ {url} |-> circ[u]]

CircuitStatus(circ) ==
    [u \in DOMAIN circ |->
        [failures |-> circ[u].failures,
         open     |-> circ[u].failures >= FAILURE_THRESHOLD]]

(***************************************************************************)
(* Fetch executor (fetcher.py 66-113)                                      *)
(***************************************************************************)
\* What one HTTP attempt can end in
RespKinds == {"ok_list", "ok_obj", "bad_json", "http_error", "timeout", "connect_error"}

\* a retry on every failed attempt
Retryable_AnyFailure(kind) == kind \notin {"ok_list", "ok_obj"}

\* retry_if_exception_type((httpx.TimeoutException, httpx.ConnectError))
Retryable(kind) == kind \in {"timeout", "connect_error"}

\* stop_after_attempt(settings.MAX_RETRIES)
StopAfterAttempt(attempts) == attempts >= MAX_RETRIES

\* wait_exponential(multiplier=1, min=1, max=8) after attempt number n
Pow2(n) == IF n <= 0 THEN 1 ELSE IF n = 1 THEN 2 ELSE IF n = 2 THEN 4 ELSE 8
Max(a, b) == IF a >= b THEN a ELSE b
Min(a, b) == IF a <= b THEN a ELSE b
WaitExponential(n) == Max(1, Min(Pow2(n - 1), 8))

\* resp.json() of a 2xx response: a list, or a single object
Body(kind) == IF kind = "ok_list" THEN [isList |-> TRUE, items |-> <<"r1", "r2">>]
              ELSE [isList |-> FALSE, items |-> <<"r1">>]

\* data if isinstance(data, list) else [data]
Normalize(body) == IF body.isList THEN body.items ELSE <<body.items[1]>>

\* str(exc); httpx timeouts carry an empty message
ErrorText(kind) ==
    CASE kind = "timeout"       -> ""
      [] kind = "connect_error" -> "All connection attempts failed"
      [] kind = "http_error"    -> "Server error '500 Internal Server Error'"
      [] kind = "bad_json"      -> "Expecting value: line 1 column 1 (char 0)"
      [] OTHER                  -> None

\* except httpx.HTTPError: a body that does not decode is not caught
Catches_HttpOnly(kind) == kind \in {"timeout", "connect_error", "http_error"}

\* except Exception as exc: every failure of an attempt is an Exception
Catches(kind) == TRUE

RECURSIVE RStrip(_)
RStrip(u) == IF Len(u) > 0 /\ u[Len(u)] = "" THEN RStrip(SubSeq(u, 1, Len(u) - 1)) ELSE u

\* url.rstrip("/").rsplit("/", 1)[-1]
SourceKey(url) == LET s == RStrip(url) IN IF Len(s) = 0 THEN "" ELSE s[Len(s)]

NoOutcome == [url |-> <<>>]

RejectedOutcome(url) ==
    [url |-> url, source_key |-> SourceKey(url), records |-> <<>>,
     duration_ms |-> 0, error |-> "Circuit open - upstream unavailable"]

SuccessOutcome(url, kind, ms) ==
    [url |-> url, source_key |-> SourceKey(url), records |-> Normalize(Body(kind)),
     duration_ms |-> ms, error |-> None]

FailureOutcome(url, kind) ==
    [url |-> url, source_key |-> SourceKey(url), records |-> <<>>,
     duration_ms |-> 0, error |-> ErrorText(kind)]

IdleTask ==
    [pc |-> "none", attempts |-> 0, retriedAfter |-> {}, resp |-> "", wake |-> 0,
     slot |-> FALSE, rejected |-> FALSE, outcome |-> NoOutcome]

\* no task
NoTask == <<"", 0>>

NoCall == [op |-> "none"]

InitFetchWith(configs) ==
    /\ cfg \in configs
    /\ now = 0
    /\ circuit = <<>>
    /\ callPc = [c \in Callers |-> "idle"]
    /\ sem = [c \in Callers |-> CONCURRENCY_LIMIT]
    /\ task = [c \in Callers |-> [i \in MaxIdx |-> IdleTask]]
    /\ last = NoCall
    /\ nfail = [u \in Urls |-> 0]
    /\ trippedAt = [u \in Urls |-> 0]
    /\ probe = [u \in Urls |-> NoTask]

InitFetch == InitFetchWith(Configs)


\* time passes
Tick ==
    /\ now < MaxTime
    /\ now' = now + TimeStep
    /\ last' = NoCall
    /\ UNCHANGED <<cfg, circuit, callPc, sem, task, nfail, trippedAt, probe>>

\* fetch_sources(urls) is called: a semaphore of its own, one _guarded per url
FetchSources(c) ==
    /\ c \in cfg.callers
    /\ callPc[c] = "idle"
    /\ callPc' = [callPc EXCEPT ![c] = "gathering"]
    /\ sem' = [sem EXCEPT ![c] = CONCURRENCY_LIMIT]
    /\ task' = [task EXCEPT ![c] =
                  [i \in MaxIdx |-> IF i \in Idx THEN [IdleTask EXCEPT !.pc = "start"]
                                    ELSE IdleTask]]
    /\ last' = NoCall
    /\ UNCHANGED <<cfg, now, circuit, nfail, trippedAt, probe>>

\* client.get is issued: the start of an attempt of _fetch_one
Issue(t) == [t EXCEPT !.pc = "inflight", !.attempts = @ + 1, !.wake = 0]

\* a _guarded that asks for its slot whatever the breaker said
Guarded_IgnoreBreaker(t, url, open, free) ==
    IF free THEN Issue([t EXCEPT !.slot = TRUE])
    ELSE [t EXCEPT !.pc = "wait_sem"]

\* _guarded up to its first suspension, for a task t whose breaker check said
\* open and whose semaphore has a free slot or not: the short-circuit, or
\* `async with sem` and the first client.get
Guarded(t, url, open, free) ==
    IF open
    THEN [t EXCEPT !.pc = "done", !.rejected = TRUE, !.outcome = RejectedOutcome(url)]
    ELSE IF free THEN Issue([t EXCEPT !.slot = TRUE])
    ELSE [t EXCEPT !.pc = "wait_sem"]

\* _guarded from its start to its first suspension
GuardedStart(c, i) ==
    LET url  == DATA_SOURCES[i]
        open == IsOpenRet(circuit, url, now)
        half == IsOpenCircuit(circuit, url, now) # circuit
        t    == Guarded(task[c][i], url, open, sem[c] > 0)
    IN  /\ callPc[c] = "gathering"
        /\ task[c][i].pc = "start"
        /\ circuit' = IsOpenCircuit(circuit, url, now)
        /\ last' = [op |-> "is_open", url |-> url, ret |-> open, pre |-> circuit,
                    pending |-> probe[url] # NoTask, caller |-> c, idx |-> i,
                    semPre |-> sem[c]]
        /\ probe' = IF half /\ probe[url] = NoTask
                    THEN [probe EXCEPT ![url] = <<c, i>>] ELSE probe
        /\ task' = [task EXCEPT ![c][i] = t]
        /\ sem' = [sem EXCEPT ![c] = IF t.pc = "inflight" THEN @ - 1 ELSE @]
        /\ UNCHANGED <<cfg, now, callPc, nfail, trippedAt>>

\* a slot of the semaphore is handed to a waiting _guarded
AcquireSlot(c, i) ==
    /\ task[c][i].pc = "wait_sem"
    /\ sem[c] > 0
    /\ sem' = [sem EXCEPT ![c] = @ - 1]
    /\ task' = [task EXCEPT ![c][i] = Issue([@ EXCEPT !.slot = TRUE])]
    /\ last' = NoCall
    /\ UNCHANGED <<cfg, now, circuit, callPc, nfail, trippedAt, probe>>

\* what a finished _guarded keeps: its outcome
Finished(t, out) ==
    [t EXCEPT !.pc = "done", !.attempts = 0, !.retriedAfter = {}, !.outcome = out]

\* every failed attempt is reported to the breaker
OnRetry_CountsAttempt(circ, url, t) == RecordFailure(circ, url, t)

\* tenacity retries inside _fetch_one: the breaker hears nothing of the attempt
OnRetry(circ, url, t) == circ

\* an attempt ends in kind after ms milliseconds: tenacity retries or gives up,
\* then _guarded records the outcome on the breaker and leaves the semaphore
Respond(c, i, kind, ms) ==
    LET url == DATA_SOURCES[i]
        t   == [task[c][i] EXCEPT !.resp = kind]
        ok  == kind \in {"ok_list", "ok_obj"}
    IN  /\ task[c][i].pc = "inflight"
        /\ IF ok
           THEN /\ circuit' = RecordSuccess(circuit, url)
                /\ last' = [op |-> "record_success", url |-> url, pre |-> circuit,
                            kind |-> kind, task |-> t]
                /\ nfail' = [nfail EXCEPT ![url] = 0]
                /\ trippedAt' = [trippedAt EXCEPT ![url] = 0]
                /\ probe' = IF probe[url] = <<c, i>> THEN [probe EXCEPT ![url] = NoTask] ELSE probe
                /\ task' = [task EXCEPT ![c][i] = Finished(t, SuccessOutcome(url, kind, ms))]
                /\ sem' = [sem EXCEPT ![c] = @ + 1]
                /\ UNCHANGED callPc
           ELSE IF Retryable(kind) /\ ~StopAfterAttempt(t.attempts)
           THEN /\ task' = [task EXCEPT ![c][i] =
                               [t EXCEPT !.pc = "backoff",
                                         !.retriedAfter = @ \cup {kind},
                                         !.wake = now + WaitExponential(t.attempts)]]
                /\ circuit' = OnRetry(circuit, url, now)
                /\ last' = NoCall
                /\ UNCHANGED <<callPc, sem, nfail, trippedAt, probe>>
           ELSE IF Catches(kind)
           THEN /\ circuit' = RecordFailure(circuit, url, now)
                /\ last' = [op |-> "record_failure", url |-> url, pre |-> circuit,
                            kind |-> kind, task |-> t]
                /\ nfail' = [nfail EXCEPT ![url] = Min(@ + 1, FAILURE_THRESHOLD + 1)]
                /\ trippedAt' = [trippedAt EXCEPT ![url] =
                                    IF nfail[url] + 1 = FAILURE_THRESHOLD THEN now ELSE @]
                /\ probe' = IF probe[url] = <<c, i>> THEN [probe EXCEPT ![url] = NoTask] ELSE probe
                /\ task' = [task EXCEPT ![c][i] = Finished(t, FailureOutcome(url, kind))]
                /\ sem' = [sem EXCEPT ![c] = @ + 1]
                /\ UNCHANGED callPc
           ELSE \* the exception leaves _guarded, gather and fetch_sources
                /\ task' = [task EXCEPT ![c] = [j \in MaxIdx |-> IdleTask]]
                /\ sem' = [sem EXCEPT ![c] = @ + 1]
                /\ callPc' = [callPc EXCEPT ![c] = "idle"]
                /\ last' = [op |-> "raise", caller |-> c, kind |-> kind]
                /\ UNCHANGED <<circuit, nfail, trippedAt, probe>>
        /\ UNCHANGED <<cfg, now>>

\* the backoff sleep of tenacity is over: the next attempt
RetryWake(c, i) ==
    /\ task[c][i].pc = "backoff"
    /\ now >= task[c][i].wake
    /\ task' = [task EXCEPT ![c][i] = Issue(@)]
    /\ last' = NoCall
    /\ UNCHANGED <<cfg, now, circuit, callPc, sem, nfail, trippedAt, probe>>

\* asyncio.gather has every result: fetch_sources returns them in input order
GatherReturn(c) ==
    /\ callPc[c] = "gathering"
    /\ \A i \in Idx : task[c][i].pc = "done"
    /\ last' = [op |-> "return", caller |-> c,
                results |-> [i \in Idx |-> task[c][i].outcome],
                tasks |-> [i \in Idx |-> task[c][i]]]
    /\ task' = [task EXCEPT ![c] = [i \in MaxIdx |-> IdleTask]]
    /\ callPc' = [callPc EXCEPT ![c] = "idle"]
    /\ UNCHANGED <<cfg, now, circuit, sem, nfail, trippedAt, probe>>

\* the durations an attempt reports, in ms: below one Tick, as the request
\* timeout (settings.HTTP_TIMEOUT, 8 s) is
Durations == {0, 120}

(***************************************************************************)
(* SWR cache (cache.py)                                                    *)
(***************************************************************************)
CACHE_TTL_HOT == 30
CACHE_STALE_GRACE == 60

\* hashlib.sha256(raw.encode()).hexdigest()[:12] of the raw strings used here
Digest(parts) ==
    CASE parts = <<"aggregate_summary">> -> "7c7b8f50e2aa"
      [] parts = <<"test">>              -> "9f86d081884c"
      [] OTHER                           -> "000000000000"

\* A key is its sequence of ":"-separated segments.
\* build_key(*parts): f"agg:v2:{digest}:{slug}" with raw = ":".join(parts); the
\* parts used here are short and hold no space, so the slug is raw itself
BuildKey(parts) == <<"agg", "v2", Digest(parts)>> \o parts

\* f"{key}:fresh"
FreshKey(k) == k \o <<"fresh">>

KAgg == BuildKey(<<"aggregate_summary">>)
KTmp == <<"tmp", "k">>

\* the logical keys the cache operations are called with
CacheKeys == {KAgg, KTmp}

\* every key the store can hold
AllKeys == CacheKeys \cup {FreshKey(k) : k \in CacheKeys}

\* the patterns invalidate_pattern is called with
AggPattern == <<"agg", "v2", "*">>
Patterns == {AggPattern, <<"tmp", "*">>}

\* Redis glob matching of key against a pattern that ends in "*" or holds none
GlobMatch(pattern, key) ==
    IF Len(pattern) > 0 /\ pattern[Len(pattern)] = "*"
    THEN /\ Len(key) >= Len(pattern)
         /\ \A i \in 1..(Len(pattern) - 1) : key[i] = pattern[i]
    ELSE key = pattern

\* Python values handed to cache_set: [t: the type, v: the content]
PyNone == [t |-> "NoneType", v |-> 0]
IntValue == [t |-> "int", v |-> 7]
\* AggregateResponse.model_dump(): a dict whose aggregated_at is a datetime
DumpValue == [t |-> "dict_datetime", v |-> 7]
Values == {IntValue, DumpValue}

\* json.dumps(value, default=str): what is not JSON goes through str()
JsonDumps(value) ==
    CASE value.t = "int"           -> [json |-> "number", v |-> value.v]
      [] value.t = "str"           -> [json |-> "string", v |-> value.v]
      [] value.t = "datetime"      -> [json |-> "string", v |-> value.v]
      [] value.t = "dict_datetime" -> [json |-> "object_of_string", v |-> value.v]
      [] value.t = "dict_str"      -> [json |-> "object_of_string", v |-> value.v]
      [] OTHER                     -> [json |-> "null", v |-> 0]

\* json.loads(value_raw)
JsonLoads(raw) ==
    CASE raw.json = "number"           -> [t |-> "int", v |-> raw.v]
      [] raw.json = "string"           -> [t |-> "str", v |-> raw.v]
      [] raw.json = "object_of_string" -> [t |-> "dict_str", v |-> raw.v]
      [] OTHER                         -> PyNone

TTLs == {0, CACHE_TTL_HOT}

\* a key of the store that has not expired
Exists(st, k, t) == k \in DOMAIN st /\ t < st[k].exp

\* the store without its expired keys
Purge(st, t) == [k \in {x \in DOMAIN st : t < st[x].exp} |-> st[k]]

\* the store without the keys ks
Without(st, ks) == [k \in DOMAIN st \ ks |-> st[k]]

\* SETEX key seconds value: an error unless seconds is positive
Setex(st, k, seconds, val, t) ==
    IF seconds <= 0 THEN st ELSE (k :> [val |-> val, exp |-> t + seconds]) @@ st

\* get_redis(): raises CacheError when _pool is None
GetRedisRaises(p) == p # "ready"

\* except RedisError: ConnectionError, TimeoutError and ResponseError are
\* RedisError, app.exceptions.CacheError is not
CaughtByRedisError(exc) == exc \in {"ConnectionError", "TimeoutError", "ResponseError"}

\* the errors a command raises while the store cannot be reached
StoreErrors == {"ConnectionError", "TimeoutError"}

NoScan == [pc |-> "idle"]
NoSet == [ttl |-> -1]

InitCache ==
    /\ pool = "uninitialised"
    /\ redis = "up"
    /\ store = <<>>
    /\ scan = NoScan
    /\ lastSet = [k \in CacheKeys |-> NoSet]

fetchIdle == <<cfg, circuit, callPc, sem, task, nfail, trippedAt, probe, dbVars>>

\* time passes; the store drops what has expired
TickCache ==
    /\ now < MaxTime
    /\ now' = now + TimeStep
    /\ store' = Purge(store, now')
    /\ last' = NoCall
    /\ UNCHANGED <<pool, redis, scan, lastSet, fetchIdle>>

\* lifespan startup: init_redis_pool()
InitRedisPool ==
    /\ pool = "uninitialised"
    /\ pool' = "ready"
    /\ last' = NoCall
    /\ UNCHANGED <<now, redis, store, scan, lastSet, fetchIdle>>

\* lifespan shutdown: close_redis_pool(), while background tasks may still run
CloseRedisPool ==
    /\ pool = "ready"
    /\ pool' = "closed"
    /\ last' = NoCall
    /\ UNCHANGED <<now, redis, store, scan, lastSet, fetchIdle>>

\* the store becomes unreachable, or too slow for the socket timeout
RedisFail ==
    /\ redis = "up"
    /\ redis' = "down"
    /\ last' = NoCall
    /\ UNCHANGED <<now, pool, store, scan, lastSet, fetchIdle>>

RedisRecover ==
    /\ redis # "up"
    /\ redis' = "up"
    /\ last' = NoCall
    /\ UNCHANGED <<now, pool, store, scan, lastSet, fetchIdle>>

\* a cache_get that does not ask for the sentinel
CacheGetRet_SentinelIgnored(st, k, t) ==
    IF ~Exists(st, k, t) THEN [value |-> PyNone, is_stale |-> FALSE]
    ELSE [value |-> JsonLoads(st[k].val), is_stale |-> FALSE]

\* what cache_get returns from a reachable store
CacheGetRet(st, k, t) ==
    IF ~Exists(st, k, t) THEN [value |-> PyNone, is_stale |-> FALSE]
    ELSE [value |-> JsonLoads(st[k].val), is_stale |-> ~Exists(st, FreshKey(k), t)]

CacheMiss == [value |-> PyNone, is_stale |-> FALSE]

\* cache_get(key)
CacheGet(k) ==
    /\ \E exc \in StoreErrors :
         last' = IF GetRedisRaises(pool)
                 THEN [op |-> "cache_get", key |-> k, raised |-> "CacheError"]
                 ELSE IF redis = "up"
                 THEN [op |-> "cache_get", key |-> k, raised |-> "", avail |-> TRUE,
                       ret |-> CacheGetRet(store, k, now)]
                 ELSE IF CaughtByRedisError(exc)
                 THEN [op |-> "cache_get", key |-> k, raised |-> "", avail |-> FALSE,
                       ret |-> CacheMiss]
                 ELSE [op |-> "cache_get", key |-> k, raised |-> exc]
    /\ UNCHANGED <<now, pool, redis, store, scan, lastSet, fetchIdle>>

\* the "1" stored under the sentinel key
FreshMark == [json |-> "number", v |-> 1]

\* cache_set that lets the value expire together with the sentinel
CacheSetStore_NoGrace(st, k, v, ttl, t) ==
    Setex(Setex(st, k, ttl, JsonDumps(v), t),
          FreshKey(k), ttl, FreshMark, t)

\* the two SETEX of cache_set, run as one MULTI/EXEC
CacheSetStore(st, k, v, ttl, t) ==
    Setex(Setex(st, k, ttl + CACHE_STALE_GRACE, JsonDumps(v), t),
          FreshKey(k), ttl, FreshMark, t)

\* cache_set(key, value, ttl)
CacheSet(k, v, ttl) ==
    LET up == ~GetRedisRaises(pool) /\ redis = "up"
        new == IF up THEN CacheSetStore(store, k, v, ttl, now) ELSE store
    IN  /\ store' = new
        /\ \E exc \in IF up THEN {"ResponseError"} ELSE StoreErrors :
             last' = IF GetRedisRaises(pool)
                     THEN [op |-> "cache_set", key |-> k, raised |-> "CacheError"]
                     ELSE IF (up /\ ttl > 0) \/ CaughtByRedisError(exc)
                     THEN [op |-> "cache_set", key |-> k, raised |-> "", avail |-> up,
                           changed |-> new # store]
                     ELSE [op |-> "cache_set", key |-> k, raised |-> exc]
        /\ lastSet' = [lastSet EXCEPT ![k] =
                          IF up THEN [ttl |-> ttl, v |-> v, at |-> now] ELSE @]
        /\ scan' = IF scan.pc # "idle" /\ up THEN [scan EXCEPT !.dirty = TRUE] ELSE scan
        /\ UNCHANGED <<now, pool, redis, fetchIdle>>

\* cache_delete(key): DEL key key:fresh
CacheDelete(k) ==
    LET up == ~GetRedisRaises(pool) /\ redis = "up"
        new == IF up THEN Without(store, {k, FreshKey(k)}) ELSE store
    IN  /\ store' = new
        /\ \E exc \in StoreErrors :
             last' = IF GetRedisRaises(pool)
                     THEN [op |-> "cache_delete", key |-> k, raised |-> "CacheError"]
                     ELSE IF up \/ CaughtByRedisError(exc)
                     THEN [op |-> "cache_delete", key |-> k, raised |-> "", avail |-> up,
                           changed |-> new # store]
                     ELSE [op |-> "cache_delete", key |-> k, raised |-> exc]
        /\ lastSet' = [lastSet EXCEPT ![k] = IF up THEN NoSet ELSE @]
        /\ scan' = IF scan.pc # "idle" /\ up THEN [scan EXCEPT !.dirty = TRUE] ELSE scan
        /\ UNCHANGED <<now, pool, redis, fetchIdle>>

\* invalidate_pattern(pattern) is called: get_redis() and the scan iterator
InvalidateStart(p) ==
    /\ scan.pc = "idle"
    /\ IF GetRedisRaises(pool)
       THEN /\ last' = [op |-> "invalidate_pattern", pattern |-> p, raised |-> "CacheError"]
            /\ scan' = scan
       ELSE /\ last' = NoCall
            /\ scan' = [pc |-> "scan", pattern |-> p,
                        todo |-> {k \in AllKeys : GlobMatch(p, k)}, reply |-> {},
                        deleted |-> 0, removed |-> 0, dirty |-> FALSE]
    /\ UNCHANGED <<now, pool, redis, store, lastSet, fetchIdle>>

\* what invalidate_pattern hands back when a command raises RedisError
InvalidateFailed(exc) ==
    IF CaughtByRedisError(exc)
    THEN [op |-> "invalidate_pattern", pattern |-> scan.pattern, raised |-> "",
          avail |-> FALSE, ret |-> 0, removed |-> scan.removed, dirty |-> scan.dirty]
    ELSE [op |-> "invalidate_pattern", pattern |-> scan.pattern, raised |-> exc]

\* one SCAN call of scan_iter(match=pattern): the cursor passes the key k, one of
\* those the pattern can match, and the reply holds it if it exists (a reply of
\* several keys is several of these steps with nothing in between)
ScanStep(k) ==
    /\ scan.pc = "scan"
    /\ k \in scan.todo
    /\ IF redis # "up"
       THEN /\ \E exc \in StoreErrors : last' = InvalidateFailed(exc)
            /\ scan' = NoScan
       ELSE /\ last' = NoCall
            /\ LET reply == {x \in {k} : Exists(store, x, now) /\ GlobMatch(scan.pattern, x)}
               IN  scan' = [scan EXCEPT !.todo = @ \ {k}, !.reply = reply,
                                        !.pc = IF reply = {} THEN "scan" ELSE "del"]
    /\ UNCHANGED <<now, pool, redis, store, lastSet, fetchIdle>>

\* the body of the loop for one key of the reply: DEL key, deleted += 1
DeleteStep(k) ==
    /\ scan.pc = "del"
    /\ k \in scan.reply
    /\ IF redis # "up"
       THEN /\ \E exc \in StoreErrors : last' = InvalidateFailed(exc)
            /\ scan' = NoScan
            /\ UNCHANGED <<store, lastSet>>
       ELSE /\ last' = NoCall
            /\ store' = Without(store, {k})
            /\ scan' = [scan EXCEPT !.reply = @ \ {k},
                                    !.deleted = @ + 1,
                                    !.removed = @ + (IF Exists(store, k, now) THEN 1 ELSE 0),
                                    !.pc = IF scan.reply = {k} THEN "scan" ELSE "del"]
            /\ lastSet' = [c \in CacheKeys |->
                              IF k \in {c, FreshKey(c)} THEN NoSet ELSE lastSet[c]]
    /\ UNCHANGED <<now, pool, redis, fetchIdle>>

\* the cursor is back at 0 and the last reply is worked off: return deleted
InvalidateReturn ==
    /\ scan.pc = "scan"
    /\ scan.todo = {}
    /\ last' = [op |-> "invalidate_pattern", pattern |-> scan.pattern, raised |-> "",
                avail |-> TRUE, ret |-> scan.deleted, removed |-> scan.removed,
                dirty |-> scan.dirty]
    /\ scan' = NoScan
    /\ UNCHANGED <<now, pool, redis, store, lastSet, fetchIdle>>

(***************************************************************************)
(* Reconciler (repositories/records.py)                                    *)
(***************************************************************************)
\* None as an external id
NoId == -1

\* a fetched record that is a dict, with its "id" (NoId if it has none) and the
\* rest of its content
Rec(i, b) == [dict |-> TRUE, id |-> i, body |-> b]

\* a fetched record that is not a dict
Blob(b) == [dict |-> FALSE, id |-> NoId, body |-> b]

\* r.get("id") if isinstance(r, dict) else None
ExtId(r) == IF r.dict THEN r.id ELSE NoId

\* self._checksum(r) if isinstance(r, dict) else "": sha256 of the canonical dump
Checksum(r) == IF r.dict THEN <<"sha256", r.id, r.body>> ELSE <<>>

\* the truth value Python gives an id
Truthy(x) == x # NoId /\ x # 0

\* DataRecord(source_key, source_url, external_id, payload, checksum)
DataRecord(sk, url, r) ==
    [source_key |-> sk, source_url |-> url, external_id |-> ExtId(r),
     payload |-> r, checksum |-> Checksum(r)]

\* the rows select(DataRecord).where(source_key == sk) returns
RowsOf(tbl, sk) == {row \in BagToSet(tbl) : row.source_key = sk}

\* existing = {row.external_id: row for row in ...}
Existing(tbl, sk) ==
    [e \in {row.external_id : row \in RowsOf(tbl, sk)} |->
        CHOOSE row \in RowsOf(tbl, sk) : row.external_id = e]

\* a loop body that counts a record whose checksum is the stored one as well
ReconcileStep_CountsUnchanged(acc, sk, url, r) ==
    IF Truthy(ExtId(r)) /\ ExtId(r) \in DOMAIN acc.existing
    THEN [acc EXCEPT !.existing[ExtId(r)].payload = r,
                     !.existing[ExtId(r)].checksum = Checksum(r),
                     !.changed = @ + 1]
    ELSE [acc EXCEPT !.to_insert = Append(@, DataRecord(sk, url, r)),
                     !.changed = @ + 1]

\* a loop body that looks every id up in existing, None as well
ReconcileStep_MatchesNone(acc, sk, url, r) ==
    IF ExtId(r) \in DOMAIN acc.existing
    THEN IF acc.existing[ExtId(r)].checksum # Checksum(r)
         THEN [acc EXCEPT !.existing[ExtId(r)].payload = r,
                          !.existing[ExtId(r)].checksum = Checksum(r),
                          !.changed = @ + 1]
         ELSE acc
    ELSE [acc EXCEPT !.to_insert = Append(@, DataRecord(sk, url, r)),
                     !.changed = @ + 1]

\* the body of the loop over the fetched records: acc holds existing (whose
\* rows the loop rewrites), to_insert and changed
ReconcileStep(acc, sk, url, r) ==
    LET ext_id == ExtId(r)
        checksum == Checksum(r)
    IN  IF Truthy(ext_id) /\ ext_id \in DOMAIN acc.existing
        THEN IF acc.existing[ext_id].checksum # checksum
             THEN [acc EXCEPT !.existing[ext_id].payload = r,
                              !.existing[ext_id].checksum = checksum,
                              !.changed = @ + 1]
             ELSE acc
        ELSE [acc EXCEPT !.to_insert = Append(@, DataRecord(sk, url, r)),
                         !.changed = @ + 1]

\* for r in records
RECURSIVE ReconcileLoop(_, _, _, _)
ReconcileLoop(acc, sk, url, records) ==
    IF records = <<>> THEN acc
    ELSE ReconcileLoop(ReconcileStep(acc, sk, url, Head(records)), sk, url, Tail(records))

\* incoming_ids = {r.get("id") for r in records if isinstance(r, dict) and r.get("id")}
IncomingIds(records) ==
    {ExtId(records[i]) : i \in {j \in 1..Len(records) : records[j].dict /\ Truthy(records[j].id)}}

\* the bag of the elements of a sequence
RECURSIVE SeqToBag(_)
SeqToBag(q) == IF q = <<>> THEN EmptyBag ELSE SetToBag({Head(q)}) (+) SeqToBag(Tail(q))

\* a table without the unique index takes every row
UniqueViolation_NoIndex(tbl, to_insert) == FALSE

\* the unique index ix_source_ext refuses the flush: an inserted row whose
\* external id is not NULL meets a stored row, or another inserted row, of the
\* same source key and external id
UniqueViolation(tbl, to_insert) ==
    \E i \in 1..Len(to_insert) :
        /\ to_insert[i].external_id # NoId
        /\ \/ \E row \in BagToSet(tbl) :
                 /\ row.source_key = to_insert[i].source_key
                 /\ row.external_id = to_insert[i].external_id
           \/ \E j \in 1..Len(to_insert) :
                 /\ j # i
                 /\ to_insert[j].source_key = to_insert[i].source_key
                 /\ to_insert[j].external_id = to_insert[i].external_id

\* upsert_source(source_key, source_url, records) on the rows tbl its session
\* sees: the rows afterwards, what it returns and what it raises
UpsertSource(tbl, sk, url, records) ==
    LET existing == Existing(tbl, sk)
        acc == ReconcileLoop([existing |-> existing, to_insert |-> <<>>, changed |-> 0],
                             sk, url, records)
        \* the flush before the DELETE: the UPDATEs of the rewritten rows ...
        others == [row \in {x \in BagToSet(tbl) : x.source_key # sk \/ x.external_id = NoId}
                     |-> tbl[row]]
        updated == others (+) SetToBag({acc.existing[e] : e \in DOMAIN existing \ {NoId}})
        \* ... and the INSERTs
        flushed == updated (+) SeqToBag(acc.to_insert)
        \* stale = [eid for eid in existing if eid not in incoming_ids]
        stale == {eid \in DOMAIN existing : eid \notin IncomingIds(records)}
        \* external_id IN (stale) is never true of a row whose external_id is NULL
        kept == {row \in BagToSet(flushed) :
                    ~(row.source_key = sk /\ row.external_id # NoId
                        /\ row.external_id \in stale)}
        after == [row \in kept |-> flushed[row]]
    IN  IF UniqueViolation(updated, acc.to_insert)
        THEN [table |-> tbl, raised |-> "IntegrityError", ret |-> <<0, 0>>]
        ELSE [table |-> after, raised |-> "", ret |-> <<Len(records), acc.changed>>]

NoFetch == [url |-> <<>>]

\* a session without a transaction
NoTx == [open |-> FALSE]

\* a caller that is not refreshing
IdleRefresh == [pc |-> "idle"]

\* no refresh has returned yet
NoRun == [outcomes |-> <<>>]
IdleRead == [pc |-> "idle"]
NoRevalidation == [pc |-> "none"]

InitDb ==
    /\ table = EmptyBag
    /\ fetched = NoFetch
    /\ tx = [c \in Callers |-> NoTx]
    /\ audits = <<>>
    /\ rf = [c \in Callers |-> IdleRefresh]
    /\ instances = 0
    /\ prev = NoRun
    /\ rd = IdleRead
    /\ rv = [j \in 1..MaxTasks |-> NoRevalidation]
    /\ stats = [hits |-> 0, misses |-> 0, stale_hits |-> 0]

\* the sequences over S of length at most n
SeqsUpTo(S, n) == UNION {[1..k -> S] : k \in 0..n}

\* the records a response of the reconciled source is made of
UpsertRecords ==
    {Rec(1, "A"), Rec(1, "B"), Rec(2, "B"), Rec(3, "C"), Rec(0, "A"), Rec(0, "B"),
     Rec(NoId, "A"), Blob("A")}

cacheIdle ==
    <<cfg, now, circuit, callPc, sem, task, nfail, trippedAt, probe, cacheVars, readVars>>

\* a successful fetch of url hands its records to the reconciler
Fetched(url, records) ==
    /\ fetched = NoFetch
    /\ ~tx["manual"].open
    /\ fetched' = [url |-> url, records |-> records]
    /\ last' = NoCall
    /\ UNCHANGED <<table, tx, audits, rf, instances, prev, cacheIdle>>

\* upsert_source runs on them in a session of its own
Reconcile ==
    /\ fetched # NoFetch
    /\ \E res \in {UpsertSource(table, SourceKey(fetched.url), fetched.url, fetched.records)} :
        /\ BagCardinality(res.table) <= MaxRows
        /\ tx' = [tx EXCEPT !["manual"] = [open |-> TRUE, rows |-> res.table,
                                           failed |-> res.raised # ""]]
        /\ last' = [op |-> "upsert_source", source_key |-> SourceKey(fetched.url),
                    url |-> fetched.url, records |-> fetched.records, pre |-> table,
                    raised |-> res.raised, ret |-> res.ret]
    /\ fetched' = NoFetch
    /\ UNCHANGED <<table, audits, rf, instances, prev, cacheIdle>>

\* the session ends: db.commit(), or the rollback of a transaction that failed
EndSession ==
    /\ tx["manual"].open
    /\ fetched = NoFetch
    /\ table' = IF tx["manual"].failed THEN table ELSE tx["manual"].rows
    /\ tx' = [tx EXCEPT !["manual"] = NoTx]
    /\ last' = NoCall
    /\ UNCHANGED <<fetched, audits, rf, instances, prev, cacheIdle>>

(***************************************************************************)
(* Refresh orchestrator (services/aggregator.py 21-66, scheduler.py)       *)
(***************************************************************************)
\* max_instances of the job auto_refresh
MAX_INSTANCES == 1

\* the deployments the orchestrator is run in: one refresher at a time
RefreshConfigs ==
    { [sources |-> <<U1, U2>>, callers |-> {"manual"}],
      [sources |-> <<U1>>,     callers |-> {"scheduler"}] }

\* deployments with the sources https://h/posts and https://g/posts
SourceConfigs ==
    { [sources |-> <<U1, U3>>, callers |-> {"manual"}],
      [sources |-> <<U3>>,     callers |-> {"scheduler"}] }

\* if result["error"]: the truth value Python gives the error text
ErrorSet(e) == e # None /\ e # ""

\* the record lists a successful response is normalised to
RefreshFetches ==
    {<<>>, <<Rec(1, "A")>>, <<Rec(1, "B")>>, <<Rec(0, "A")>>, <<Rec(NoId, "A")>>}

\* the outcomes fetch_sources can hand back for url
FetchOutcomes(url) ==
    {[SuccessOutcome(url, "ok_list", 120) EXCEPT !.records = recs] : recs \in RefreshFetches}
    \cup {FailureOutcome(url, kind) : kind \in {"timeout", "http_error"}}
    \cup {RejectedOutcome(url)}

\* one outcome per configured source, in the order of the sources
OutcomeVectors ==
    {v \in [Idx -> UNION {FetchOutcomes(u) : u \in Urls}] :
        \A i \in Idx : v[i].url = DATA_SOURCES[i]}

\* audit_repo.log(..., status="error", error_detail=result["error"], ...)
ErrorAudit(r, by) ==
    [source_url |-> r.url, source_key |-> r.source_key, status |-> "error",
     records_fetched |-> 0, records_changed |-> 0, duration_ms |-> 0,
     error_detail |-> r.error, triggered_by |-> by]

\* audit_repo.log(..., status="ok", records_fetched, records_changed, duration_ms, ...)
OkAudit(r, fetchedCount, changedCount, by) ==
    [source_url |-> r.url, source_key |-> r.source_key, status |-> "ok",
     records_fetched |-> fetchedCount, records_changed |-> changedCount,
     duration_ms |-> r.duration_ms, error_detail |-> None, triggered_by |-> by]

\* RefreshResponse(message, sources_refreshed, records_upserted, records_changed, errors)
Summary(r) ==
    [message |-> "Refresh complete",
     sources_refreshed |->
        Cardinality({i \in 1..Len(r.results) : ~ErrorSet(r.results[i].error)}),
     records_upserted |-> r.total_upserted,
     records_changed |-> r.total_changed,
     errors |-> r.errors]

refreshIdle ==
    <<cfg, now, circuit, callPc, sem, task, nfail, trippedAt, probe, pool, redis, store,
      lastSet, fetched, readVars>>

\* the job runs every instance the timer asks for
SchedulerMayRun_Unlimited(n) == TRUE

\* the executor refuses a run while max_instances instances are running
SchedulerMayRun(n) == n < MAX_INSTANCES

\* the end of a refresh of caller c, as far as the scheduler counts it
InstancesAfter(c) == IF c = "scheduler" THEN instances - 1 ELSE instances

\* POST /refresh/sync: refresh_data(db, "manual") is called and awaits fetch_sources
ManualRefresh ==
    /\ "manual" \in cfg.callers
    /\ pool # "uninitialised"
    /\ rf["manual"].pc = "idle"
    /\ Len(audits) + Len(DATA_SOURCES) <= MaxAudits
    /\ rf' = [rf EXCEPT !["manual"] = [pc |-> "fetching"]]
    /\ last' = NoCall
    /\ UNCHANGED <<table, tx, audits, instances, prev, scan, refreshIdle>>

\* the interval trigger fires: _scheduled_refresh runs unless the job is running
SchedulerFire ==
    /\ "scheduler" \in cfg.callers
    /\ pool # "uninitialised"
    /\ IF SchedulerMayRun(instances)
       THEN /\ Len(audits) + Len(DATA_SOURCES) <= MaxAudits
            /\ instances' = instances + 1
            /\ rf' = [rf EXCEPT !["scheduler"] = [pc |-> "fetching"]]
            /\ last' = [op |-> "tick", skipped |-> FALSE, running |-> instances]
       ELSE /\ last' = [op |-> "tick", skipped |-> TRUE, running |-> instances]
            /\ UNCHANGED <<instances, rf>>
    /\ UNCHANGED <<table, tx, audits, prev, scan, refreshIdle>>

\* fetch_sources returns its outcomes; the session of the refresh sees the
\* committed rows
RefreshFetched(c, outcomes) ==
    /\ rf[c].pc = "fetching"
    /\ rf' = [rf EXCEPT ![c] = [pc |-> "reconcile", results |-> outcomes, i |-> 1,
                                total_upserted |-> 0, total_changed |-> 0,
                                errors |-> <<>>]]
    /\ tx' = [tx EXCEPT ![c] = [open |-> TRUE, rows |-> table, audits |-> <<>>]]
    /\ last' = NoCall
    /\ UNCHANGED <<table, audits, instances, prev, scan, refreshIdle>>

\* refresh_data ends with the exception exc: its session closes, which rolls the
\* transaction back
RefreshRaises(c, exc) ==
    /\ rf' = [rf EXCEPT ![c] = IdleRefresh]
    /\ tx' = [tx EXCEPT ![c] = NoTx]
    /\ instances' = InstancesAfter(c)
    /\ prev' = NoRun
    /\ last' = [op |-> "refresh_data", caller |-> c, raised |-> exc,
                logged |-> c = "scheduler"]

\* a flush publishes the pending rows to every other session at once
Flush_Autocommit(committed, pending) == pending

\* await self.db.flush(): the statements go to the database inside the open
\* transaction, other sessions keep seeing the committed rows
Flush(committed, pending) == committed

\* one pass of `for result in raw_results`; dbOk is whether the database answers
RefreshStep(c, dbOk) ==
    /\ rf[c].pc = "reconcile"
    /\ rf[c].i <= Len(rf[c].results)
    /\ LET r == rf[c].results[rf[c].i]
       IN  IF ErrorSet(r.error)
           THEN /\ dbOk
                /\ rf' = [rf EXCEPT ![c].errors = Append(@, <<r.source_key, r.error>>),
                                    ![c].i = @ + 1]
                /\ tx' = [tx EXCEPT ![c].audits = Append(@, ErrorAudit(r, c))]
                /\ last' = NoCall
                /\ UNCHANGED <<instances, prev, table>>
           ELSE \E res \in {UpsertSource(tx[c].rows, r.source_key, r.url, r.records)} :
                  /\ BagCardinality(res.table) <= MaxRows
                  /\ IF ~dbOk THEN RefreshRaises(c, "OperationalError") /\ table' = table
                     ELSE IF res.raised # ""
                     THEN RefreshRaises(c, res.raised) /\ table' = table
                     ELSE /\ table' = Flush(table, res.table)
                          /\ rf' = [rf EXCEPT ![c].total_upserted = @ + res.ret[1],
                                              ![c].total_changed = @ + res.ret[2],
                                              ![c].i = @ + 1]
                          /\ tx' = [tx EXCEPT ![c].rows = res.table,
                                              ![c].audits =
                                                 Append(@, OkAudit(r, res.ret[1], res.ret[2], c))]
                          /\ last' = NoCall
                          /\ UNCHANGED <<instances, prev>>
    /\ UNCHANGED <<audits, scan, refreshIdle>>

\* await db.commit()
RefreshCommit(c, dbOk) ==
    /\ rf[c].pc = "reconcile"
    /\ rf[c].i > Len(rf[c].results)
    /\ IF dbOk
       THEN /\ table' = tx[c].rows
            /\ audits' = audits \o tx[c].audits
            /\ tx' = [tx EXCEPT ![c] = NoTx]
            /\ rf' = [rf EXCEPT ![c].pc = "invalidate"]
            /\ last' = [op |-> "commit", caller |-> c]
            /\ UNCHANGED <<instances, prev>>
       ELSE /\ RefreshRaises(c, "OperationalError")
            /\ UNCHANGED <<table, audits>>
    /\ UNCHANGED <<scan, refreshIdle>>

\* await invalidate_pattern("agg:v2:*") is called
RefreshInvalidate(c) ==
    /\ rf[c].pc = "invalidate"
    /\ scan.pc = "idle"
    /\ IF GetRedisRaises(pool)
       THEN /\ RefreshRaises(c, "CacheError")
            /\ scan' = scan
       ELSE /\ scan' = [pc |-> "scan", pattern |-> AggPattern,
                        todo |-> {k \in AllKeys : GlobMatch(AggPattern, k)}, reply |-> {},
                        deleted |-> 0, removed |-> 0, dirty |-> FALSE]
            /\ rf' = [rf EXCEPT ![c].pc = "invalidating"]
            /\ last' = NoCall
            /\ UNCHANGED <<tx, instances, prev>>
    /\ UNCHANGED <<table, audits, refreshIdle>>

\* invalidate_pattern is back: return RefreshResponse(...)
RefreshReturn(c) ==
    /\ rf[c].pc = "invalidating"
    /\ scan.pc = "idle"
    /\ last' = [op |-> "refresh_data", caller |-> c, raised |-> "",
                summary |-> Summary(rf[c]), outcomes |-> rf[c].results, prev |-> prev]
    /\ prev' = [outcomes |-> rf[c].results, table |-> table]
    /\ rf' = [rf EXCEPT ![c] = IdleRefresh]
    /\ instances' = InstancesAfter(c)
    /\ UNCHANGED <<table, tx, audits, scan, refreshIdle>>

(***************************************************************************)
(* Refreshes side by side (aggregator.py 21-66, records.py 23-77,          *)
(* models.py 20-23): every refresh_data has its own session and            *)
(* transaction, the rows meet in the table and in its unique index         *)
(***************************************************************************)
\* the deployment with a manual and a scheduled refresher of one source
ConcurrentConfigs == { [sources |-> <<U1>>, callers |-> Callers] }

\* the lists a source answers with, one of them with an id twice
ConcurrentFetches ==
    {<<Rec(1, "A")>>, <<Rec(1, "B")>>, <<Rec(2, "A")>>, <<Rec(1, "A"), Rec(1, "B")>>,
     <<Rec(NoId, "A")>>}

\* the external ids whose rows or index entries the open transactions of the
\* other sessions have written: a statement that meets one of them waits
PendingKeys(c) == UNION {tx[d].keys : d \in {x \in Callers \ {c} : tx[x].open}}

\* the rows of tbl but for those of source sk whose external id is in ids
RowsBut(tbl, sk, ids) ==
    [row \in {x \in BagToSet(tbl) : ~(x.source_key = sk /\ x.external_id \in ids)}
       |-> tbl[row]]

\* fetch_sources returns the list recs for the one source
SessionFetched(c, recs) ==
    /\ rf[c].pc = "fetching"
    /\ Len(audits) < MaxCommits
    /\ rf' = [rf EXCEPT ![c] =
                [pc |-> "select", i |-> 1, total_upserted |-> 0, total_changed |-> 0,
                 errors |-> <<>>,
                 results |-> <<[SuccessOutcome(DATA_SOURCES[1], "ok_list", 120)
                                   EXCEPT !.records = recs]>>]]
    /\ tx' = [tx EXCEPT ![c] = [open |-> TRUE, keys |-> {}, ins |-> EmptyBag, del |-> {},
                                audits |-> <<>>]]
    /\ last' = NoCall
    /\ UNCHANGED <<table, audits, instances, prev, scan, refreshIdle>>

\* upsert_source up to db.add_all: the SELECT reads the committed rows, the
\* loop sorts the records into rewritten rows and new rows
SessionSelect(c) ==
    /\ rf[c].pc = "select"
    /\ LET r == rf[c].results[1]
           existing == Existing(table, r.source_key)
       IN  rf' = [rf EXCEPT ![c] =
                    [pc |-> "flush", i |-> 1, total_upserted |-> 0, total_changed |-> 0,
                     errors |-> <<>>, results |-> rf[c].results, existing |-> existing,
                     acc |-> ReconcileLoop([existing |-> existing, to_insert |-> <<>>,
                                            changed |-> 0],
                                           r.source_key, r.url, r.records)]]
    /\ last' = NoCall
    /\ UNCHANGED <<table, tx, audits, instances, prev, scan, refreshIdle>>

\* the rest of upsert_source and audit_repo.log: the UPDATEs and INSERTs of the
\* flush, then the DELETE of the stale ids, inside the transaction of c
SessionFlush(c, dbOk) ==
    /\ rf[c].pc = "flush"
    /\ LET r == rf[c].results[1]
           sk == r.source_key
           existing == rf[c].existing
           acc == rf[c].acc
           rewritten == {e \in DOMAIN existing \ {NoId} : acc.existing[e] # existing[e]}
           stale == {eid \in DOMAIN existing : eid \notin IncomingIds(r.records)} \ {NoId}
           inserted == {acc.to_insert[i].external_id : i \in 1..Len(acc.to_insert)} \ {NoId}
           stored == {row.external_id : row \in RowsOf(table, sk)}
       IN  /\ (rewritten \cup stale \cup inserted) \cap PendingKeys(c) = {}
           /\ BagCardinality(table) + Len(acc.to_insert) <= MaxRows
           /\ IF ~dbOk THEN RefreshRaises(c, "OperationalError")
              ELSE IF UniqueViolation(table, acc.to_insert)
              THEN RefreshRaises(c, "IntegrityError")
              ELSE IF ~(rewritten \subseteq stored)
              THEN RefreshRaises(c, "StaleDataError")
              ELSE /\ tx' = [tx EXCEPT ![c] =
                               [open |-> TRUE,
                                keys |-> rewritten \cup stale \cup inserted,
                                ins |-> SeqToBag(acc.to_insert)
                                          (+) SetToBag({acc.existing[e] : e \in rewritten}),
                                del |-> rewritten \cup stale,
                                audits |-> <<OkAudit(r, Len(r.records), acc.changed, c)>>]]
                   /\ rf' = [rf EXCEPT ![c].pc = "commit",
                                       ![c].total_upserted = Len(r.records),
                                       ![c].total_changed = acc.changed,
                                       ![c].i = 2]
                   /\ last' = NoCall
                   /\ UNCHANGED <<instances, prev>>
    /\ UNCHANGED <<table, audits, scan, refreshIdle>>

\* await db.commit(): the rows the transaction deleted or rewrote leave the
\* table, the rows it inserted or rewrote enter it
SessionCommit(c, dbOk) ==
    /\ rf[c].pc = "commit"
    /\ IF dbOk
       THEN /\ table' = RowsBut(table, rf[c].results[1].source_key, tx[c].del) (+) tx[c].ins
            /\ audits' = audits \o tx[c].audits
            /\ tx' = [tx EXCEPT ![c] = NoTx]
            /\ rf' = [rf EXCEPT ![c].pc = "invalidate"]
            /\ last' = [op |-> "commit", caller |-> c]
            /\ UNCHANGED <<instances, prev>>
       ELSE /\ RefreshRaises(c, "OperationalError")
            /\ UNCHANGED <<table, audits>>
    /\ UNCHANGED <<scan, refreshIdle>>

(***************************************************************************)
(* Aggregate reads (services/aggregator.py 69-134)                         *)
(***************************************************************************)
CACHE_TTL_WARM == 300

\* the deployment the aggregate is read in
ReadConfigs == { [sources |-> <<U1>>, callers |-> {"manual"}] }

\* select source_key, source_url, count(id) ... group by source_key, source_url
SourceSummary(tbl) ==
    { [source_key |-> g[1], source_url |-> g[2],
       cnt |-> BagCardinality([row \in {x \in BagToSet(tbl) :
                                          x.source_key = g[1] /\ x.source_url = g[2]}
                               |-> tbl[row]])] :
      g \in {<<row.source_key, row.source_url>> : row \in BagToSet(tbl)} }

RECURSIVE SumCnt(_)
\* sum(s.record_count for s in sources)
SumCnt(summaries) ==
    IF summaries = {} THEN 0
    ELSE LET g == CHOOSE x \in summaries : TRUE
         IN  g.cnt + SumCnt(summaries \ {g})

\* AggregateResponse(total_records=..., ...).model_dump()
AggregateDump(tbl) == [t |-> "dict_datetime", v |-> SumCnt(SourceSummary(tbl))]

\* the aggregate the rows of the last returned refresh give, 0 before any
Floor == IF prev = NoRun THEN 0 ELSE SumCnt(SourceSummary(prev.table))

\* the lowest free task slot, 0 if none
FreeSlot ==
    IF \E j \in 1..MaxTasks : rv[j].pc = "none"
    THEN CHOOSE j \in 1..MaxTasks : rv[j].pc = "none" /\ \A i \in 1..(j - 1) : rv[i].pc # "none"
    ELSE 0

Reads == stats.hits + stats.misses + stats.stale_hits

\* what a cache_set of (k, v, ttl) does to the store and to a running scan
CacheWrite(k, v, ttl) ==
    LET up == ~GetRedisRaises(pool) /\ redis = "up"
    IN  /\ store' = IF up THEN CacheSetStore(store, k, v, ttl, now) ELSE store
        /\ lastSet' = [lastSet EXCEPT ![k] =
                          IF up THEN [ttl |-> ttl, v |-> v, at |-> now] ELSE @]
        /\ scan' = IF scan.pc # "idle" /\ up THEN [scan EXCEPT !.dirty = TRUE] ELSE scan

readIdle ==
    <<cfg, circuit, callPc, sem, task, nfail, trippedAt, probe, pool, redis, table,
      fetched, tx, audits, rf, instances, prev>>

\* time passes between requests; the store drops what has expired
TickRead ==
    /\ now < MaxReadTime
    /\ now' = now + ReadStep
    /\ store' = Purge(store, now')
    /\ last' = NoCall
    /\ UNCHANGED <<scan, lastSet, readVars, readIdle>>

\* GET /aggregate: cache_get(key), then the HIT return, the STALE return that
\* spawns _revalidate_aggregate, or record_miss() on the way to storage
ReadStart ==
    /\ rd.pc = "idle"
    /\ pool # "uninitialised"
    /\ Reads < MaxReads
    /\ LET ret == IF redis = "up" THEN CacheGetRet(store, KAgg, now) ELSE CacheMiss
       IN  IF GetRedisRaises(pool)
           THEN /\ last' = [op |-> "get_aggregate_summary", raised |-> "CacheError"]
                /\ UNCHANGED readVars
           ELSE IF ret.value # PyNone /\ ~ret.is_stale
           THEN /\ stats' = [stats EXCEPT !.hits = @ + 1]
                /\ last' = [op |-> "get_aggregate_summary", raised |-> "",
                            cache_status |-> "HIT", total |-> ret.value.v,
                            floor |-> Floor, spawned |-> 0]
                /\ UNCHANGED <<rd, rv>>
           ELSE IF ret.value # PyNone /\ ret.is_stale
           THEN /\ FreeSlot # 0
                /\ stats' = [stats EXCEPT !.stale_hits = @ + 1]
                /\ rv' = [rv EXCEPT ![FreeSlot] = [pc |-> "query"]]
                /\ last' = [op |-> "get_aggregate_summary", raised |-> "",
                            cache_status |-> "STALE", total |-> ret.value.v,
                            floor |-> Floor, spawned |-> FreeSlot]
                /\ UNCHANGED rd
           ELSE /\ stats' = [stats EXCEPT !.misses = @ + 1]
                /\ rd' = [pc |-> "query", floor |-> Floor]
                /\ last' = NoCall
                /\ UNCHANGED rv
    /\ UNCHANGED <<now, store, scan, lastSet, readIdle>>

\* await RecordRepository(db).source_summary() of the read that missed
ReadQuery(dbOk) ==
    /\ rd.pc = "query"
    /\ IF dbOk
       THEN /\ rd' = [pc |-> "set", floor |-> rd.floor, response |-> AggregateDump(table)]
            /\ last' = NoCall
       ELSE /\ rd' = IdleRead
            /\ last' = [op |-> "get_aggregate_summary", raised |-> "OperationalError"]
    /\ UNCHANGED <<now, store, scan, lastSet, rv, stats, readIdle>>

\* await cache_set(key, response.model_dump(), CACHE_TTL_WARM); return response
ReadSet ==
    /\ rd.pc = "set"
    /\ CacheWrite(KAgg, rd.response, CACHE_TTL_WARM)
    /\ IF GetRedisRaises(pool)
       THEN last' = [op |-> "get_aggregate_summary", raised |-> "CacheError"]
       ELSE last' = [op |-> "get_aggregate_summary", raised |-> "",
                     cache_status |-> "MISS", total |-> rd.response.v,
                     floor |-> rd.floor, spawned |-> 0]
    /\ rd' = IdleRead
    /\ UNCHANGED <<now, rv, stats, readIdle>>

\* except Exception in _revalidate_aggregate drops the cached entry
RevalidateFailed_Evicts(st, k) == Without(st, {k, FreshKey(k)})

\* except Exception in _revalidate_aggregate: the error is logged, nothing else
RevalidateFailed(st, k) == st

\* _revalidate_aggregate(key), task j: source_summary() in a session of its own
RevalidateQuery(j, dbOk) ==
    /\ rv[j].pc = "query"
    /\ IF dbOk
       THEN /\ rv' = [rv EXCEPT ![j] = [pc |-> "set", response |-> AggregateDump(table)]]
            /\ last' = NoCall
            /\ store' = store
       ELSE /\ rv' = [rv EXCEPT ![j] = NoRevalidation]
            /\ store' = RevalidateFailed(store, KAgg)
            /\ last' = [op |-> "_revalidate_aggregate", task |-> j, raised |-> "",
                        failed |-> TRUE]
    /\ UNCHANGED <<now, scan, lastSet, rd, stats, readIdle>>

\* a revalidation that ends without writing the entry
RevalidateSet_Drops(j) ==
    /\ rv[j].pc = "set"
    /\ rv' = [rv EXCEPT ![j] = NoRevalidation]
    /\ last' = [op |-> "_revalidate_aggregate", task |-> j, raised |-> "", failed |-> FALSE]
    /\ UNCHANGED <<now, store, scan, lastSet, rd, stats, readIdle>>

\* _revalidate_aggregate(key), task j: cache_set(key, ..., CACHE_TTL_WARM)
RevalidateSet(j) ==
    /\ rv[j].pc = "set"
    /\ CacheWrite(KAgg, rv[j].response, CACHE_TTL_WARM)
    /\ rv' = [rv EXCEPT ![j] = NoRevalidation]
    /\ last' = [op |-> "_revalidate_aggregate", task |-> j, raised |-> "",
                failed |-> GetRedisRaises(pool)]
    /\ UNCHANGED <<now, rd, stats, readIdle>>

\* the records the n-th successful fetch of a growing source holds
GrowingFetch(n) == [i \in 1..n |-> Rec(i, "A")]

\* refresh_data of caller c up to and including its commit, for a source that
\* answered with one record more than it has stored: nothing of the run is
\* visible to a reader before this step
RefreshCommitted(c) ==
    /\ c \in cfg.callers
    /\ rf[c].pc = "idle"
    /\ BagCardinality(table) < MaxCommits
    /\ LET url == DATA_SOURCES[1]
           o == [SuccessOutcome(url, "ok_list", 120)
                    EXCEPT !.records = GrowingFetch(BagCardinality(table) + 1)]
       IN  \E res \in {UpsertSource(table, o.source_key, url, o.records)} :
             /\ res.raised = ""
             /\ table' = res.table
             /\ audits' = Append(audits, OkAudit(o, res.ret[1], res.ret[2], c))
             /\ rf' = [rf EXCEPT ![c] = [pc |-> "invalidate", results |-> <<o>>, i |-> 2,
                                         total_upserted |-> res.ret[1],
                                         total_changed |-> res.ret[2], errors |-> <<>>]]
    /\ last' = [op |-> "commit", caller |-> c]
    /\ UNCHANGED <<tx, instances, prev, scan, refreshIdle>>

(***************************************************************************)
(* build_key over arbitrary parts (cache.py 64-68); a string is the        *)
(* sequence of its characters                                              *)
(***************************************************************************)
SLUG_LEN == 60

\* Python values handed to build_key: [t: the type, v: the content]
StrPart(chars) == [t |-> "str", v |-> chars]
IntPart(digits) == [t |-> "int", v |-> digits]
NonePart == [t |-> "NoneType", v |-> <<>>]

\* str(p)
PyStr(p) ==
    CASE p.t = "NoneType" -> <<"N", "o", "n", "e">>
      [] p.t = "int"      -> p.v
      [] OTHER            -> p.v

RECURSIVE Join(_)
\* ":".join(str(p) for p in parts)
Join(parts) ==
    IF Len(parts) = 0 THEN <<>>
    ELSE IF Len(parts) = 1 THEN PyStr(parts[1])
    ELSE PyStr(parts[1]) \o <<":">> \o Join(Tail(parts))

\* hashlib.sha256(raw.encode()).hexdigest()[:12]: a function of raw, taken to
\* tell any two raw strings apart
Sha256Hex12(raw) == <<"sha256">> \o raw

\* raw[:60].replace(" ", "_")
Slug(raw) ==
    LET head == SubSeq(raw, 1, IF Len(raw) < SLUG_LEN THEN Len(raw) ELSE SLUG_LEN)
    IN  [i \in 1..Len(head) |-> IF head[i] = " " THEN "_" ELSE head[i]]

\* build_key(*parts): f"agg:v2:{digest}:{slug}"
BuildKeyChars(parts) ==
    LET raw == Join(parts) IN <<"agg", "v2", Sha256Hex12(raw), Slug(raw)>>

\* the values the parts are drawn from
PartValues ==
    { StrPart(<<"a">>), StrPart(<<"b">>), StrPart(<<"a", ":", "b">>),
      StrPart(<<"N", "o", "n", "e">>), NonePart, IntPart(<<"1">>) }

\* two build_key calls, on the parts a and on the parts b
BuildKeyTwice(a, b) ==
    /\ last = NoCall
    /\ last' = [op |-> "build_key", a |-> a, b |-> b,
                ka |-> BuildKeyChars(a), kb |-> BuildKeyChars(b)]
    /\ UNCHANGED <<cfg, now, circuit, callPc, sem, task, nfail, trippedAt, probe,
                   cacheVars, dbVars>>

Init == InitFetch /\ InitCache /\ InitDb

Next ==
    \/ Tick /\ UNCHANGED <<cacheVars, dbVars>>
    \/ \E c \in Callers : FetchSources(c) /\ UNCHANGED <<cacheVars, dbVars>>
    \/ \E c \in Callers, i \in Idx : GuardedStart(c, i) /\ UNCHANGED <<cacheVars, dbVars>>
    \/ \E c \in Callers, i \in Idx : AcquireSlot(c, i) /\ UNCHANGED <<cacheVars, dbVars>>
    \/ \E c \in Callers, i \in Idx, kind \in RespKinds, ms \in Durations :
          Respond(c, i, kind, ms) /\ UNCHANGED <<cacheVars, dbVars>>
    \/ \E c \in Callers, i \in Idx : RetryWake(c, i) /\ UNCHANGED <<cacheVars, dbVars>>
    \/ \E c \in Callers : GatherReturn(c) /\ UNCHANGED <<cacheVars, dbVars>>

\* the fetch executor and its breaker
Spec == Init /\ [][Next]_vars

\* the same while the clock advances, refreshes keep being triggered, the
\* event loop runs every _guarded and every request is answered
FairFetch ==
    /\ WF_vars(Tick /\ UNCHANGED <<cacheVars, dbVars>>)
    /\ \A c \in Callers :
          /\ WF_vars(FetchSources(c) /\ UNCHANGED <<cacheVars, dbVars>>)
          /\ WF_vars(GatherReturn(c) /\ UNCHANGED <<cacheVars, dbVars>>)
          /\ \A i \in MaxIdx :
                /\ WF_vars(i \in Idx /\ GuardedStart(c, i) /\ UNCHANGED <<cacheVars, dbVars>>)
                /\ WF_vars(i \in Idx /\ AcquireSlot(c, i) /\ UNCHANGED <<cacheVars, dbVars>>)
                /\ WF_vars(i \in Idx /\ RetryWake(c, i) /\ UNCHANGED <<cacheVars, dbVars>>)
                /\ WF_vars(/\ i \in Idx
                           /\ \E kind \in RespKinds, ms \in Durations : Respond(c, i, kind, ms)
                           /\ UNCHANGED <<cacheVars, dbVars>>)

\* the upstream answers well, with an error status or not in time
FairKinds == {"ok_list", "http_error", "timeout"}

NextFair ==
    \/ Tick /\ UNCHANGED <<cacheVars, dbVars>>
    \/ \E c \in Callers : FetchSources(c) /\ UNCHANGED <<cacheVars, dbVars>>
    \/ \E c \in Callers, i \in Idx : GuardedStart(c, i) /\ UNCHANGED <<cacheVars, dbVars>>
    \/ \E c \in Callers, i \in Idx : AcquireSlot(c, i) /\ UNCHANGED <<cacheVars, dbVars>>
    \/ \E c \in Callers, i \in Idx, kind \in FairKinds :
          Respond(c, i, kind, 120) /\ UNCHANGED <<cacheVars, dbVars>>
    \/ \E c \in Callers, i \in Idx : RetryWake(c, i) /\ UNCHANGED <<cacheVars, dbVars>>
    \/ \E c \in Callers : GatherReturn(c) /\ UNCHANGED <<cacheVars, dbVars>>

SpecFair == Init /\ [][NextFair]_vars /\ FairFetch

\* the cache in the deployment with one refresher
InitCacheSpec == Init /\ cfg.callers = {"manual"}

\* reading and writing cache entries while time passes and the store comes and goes
NextCache ==
    \/ TickCache
    \/ InitRedisPool
    \/ CloseRedisPool
    \/ RedisFail
    \/ RedisRecover
    \/ \E k \in CacheKeys : CacheGet(k)
    \/ \E k \in CacheKeys, v \in Values, ttl \in TTLs : CacheSet(k, v, ttl)
    \/ \E k \in CacheKeys : CacheDelete(k)

SpecCache == InitCacheSpec /\ [][NextCache]_vars

\* invalidation by pattern next to the other cache operations
NextInvalidate ==
    \/ TickCache
    \/ InitRedisPool
    \/ CloseRedisPool
    \/ RedisFail
    \/ RedisRecover
    \/ \E k \in CacheKeys : CacheGet(k)
    \/ \E k \in CacheKeys : CacheSet(k, DumpValue, CACHE_TTL_HOT)
    \/ \E k \in CacheKeys : CacheDelete(k)
    \/ \E p \in Patterns : InvalidateStart(p)
    \/ \E k \in AllKeys : ScanStep(k)
    \/ \E k \in AllKeys : DeleteStep(k)
    \/ InvalidateReturn

SpecInvalidate == InitCacheSpec /\ [][NextInvalidate]_vars

\* the reconciler on the rows of one source
InitUpsert == Init /\ cfg.callers = {"manual"}

NextUpsert ==
    \/ \E records \in SeqsUpTo(UpsertRecords, MaxFetchLen) : Fetched(U1, records)
    \/ Reconcile
    \/ EndSession

SpecUpsert == InitUpsert /\ [][NextUpsert]_vars

\* refresh_data from the fetched outcomes to its summary, by one refresher
Fetching == {c \in Callers : rf[c].pc = "fetching"}
Reconciling == {c \in Callers : rf[c].pc = "reconcile"}

InitRefresh == InitFetchWith(RefreshConfigs) /\ InitCache /\ InitDb

NextRefresh ==
    \/ InitRedisPool
    \/ ManualRefresh
    \/ SchedulerFire
    \/ \E c \in Fetching : \E outcomes \in OutcomeVectors : RefreshFetched(c, outcomes)
    \/ \E c \in Reconciling, dbOk \in BOOLEAN : RefreshStep(c, dbOk)
    \/ \E c \in Reconciling, dbOk \in BOOLEAN : RefreshCommit(c, dbOk)
    \/ \E c \in Callers : RefreshInvalidate(c)
    \/ \E k \in AllKeys : ScanStep(k)
    \/ InvalidateReturn
    \/ \E c \in Callers : RefreshReturn(c)

SpecRefresh == InitRefresh /\ [][NextRefresh]_vars

\* refresh_data where two configured URLs end in the same path segment
InitSources == InitFetchWith(SourceConfigs) /\ InitCache /\ InitDb

SpecSources == InitSources /\ [][NextRefresh]_vars

\* a manual and a scheduled refresh of one source, each in its own transaction
Selecting == {c \in Callers : rf[c].pc = "select"}
Flushing == {c \in Callers : rf[c].pc = "flush"}
Committing == {c \in Callers : rf[c].pc = "commit"}

InitConcurrent == InitFetchWith(ConcurrentConfigs) /\ InitCache /\ InitDb

NextConcurrent ==
    \/ InitRedisPool
    \/ ManualRefresh
    \/ SchedulerFire
    \/ \E c \in Fetching : \E recs \in ConcurrentFetches : SessionFetched(c, recs)
    \/ \E c \in Selecting : SessionSelect(c)
    \/ \E c \in Flushing, dbOk \in BOOLEAN : SessionFlush(c, dbOk)
    \/ \E c \in Committing, dbOk \in BOOLEAN : SessionCommit(c, dbOk)
    \/ \E c \in Callers : RefreshInvalidate(c)
    \/ \E k \in AllKeys : ScanStep(k)
    \/ InvalidateReturn
    \/ \E c \in Callers : RefreshReturn(c)

SpecConcurrent == InitConcurrent /\ [][NextConcurrent]_vars

\* reads of the aggregate next to refreshes that commit and invalidate
InitRead == InitFetchWith(ReadConfigs) /\ InitCache /\ InitDb

Revalidating == {j \in 1..MaxTasks : rv[j].pc = "query"}

NextRead ==
    \/ InitRedisPool
    \/ TickRead
    \/ ReadStart
    \/ \E dbOk \in BOOLEAN : ReadQuery(dbOk)
    \/ ReadSet
    \/ \E j \in Revalidating, dbOk \in BOOLEAN : RevalidateQuery(j, dbOk)
    \/ \E j \in 1..MaxTasks : RevalidateSet(j)
    \/ RefreshCommitted("manual")
    \/ RefreshInvalidate("manual")
    \/ \E k \in AllKeys : ScanStep(k)
    \/ \E k \in AllKeys : DeleteStep(k)
    \/ InvalidateReturn
    \/ RefreshReturn("manual")

SpecRead == InitRead /\ [][NextRead]_vars

\* the same with the event loop running every task it has created: a
\* revalidation that can take its next step takes it
FairRead ==
    /\ WF_vars(\E j \in 1..MaxTasks, dbOk \in BOOLEAN : RevalidateQuery(j, dbOk))
    /\ WF_vars(\E j \in 1..MaxTasks : RevalidateSet(j))

\* GET /aggregate, a bounded number of times
ReadStartFew == Reads < MaxFairReads /\ ReadStart

\* refresh_data up to its commit, a bounded number of times
RefreshCommittedFew(c) == Len(audits) < MaxFairCommits /\ RefreshCommitted(c)

NextReadFair ==
    \/ InitRedisPool
    \/ TickRead
    \/ ReadStartFew
    \/ \E dbOk \in BOOLEAN : ReadQuery(dbOk)
    \/ ReadSet
    \/ \E j \in Revalidating, dbOk \in BOOLEAN : RevalidateQuery(j, dbOk)
    \/ \E j \in 1..MaxTasks : RevalidateSet(j)
    \/ RefreshCommittedFew("manual")
    \/ RefreshInvalidate("manual")
    \/ \E k \in AllKeys : ScanStep(k)
    \/ \E k \in AllKeys : DeleteStep(k)
    \/ InvalidateReturn
    \/ RefreshReturn("manual")

SpecReadFair == InitRead /\ [][NextReadFair]_vars /\ FairRead

\* build_key on pairs of part sequences
NextKey ==
    /\ last = NoCall
    /\ \E a, b \in SeqsUpTo(PartValues, MaxParts) : BuildKeyTwice(a, b)

SpecKey == Init /\ [][NextKey]_vars

(***************************************************************************)
(* Properties of the breaker and the fetch executor, checked under Spec    *)
(***************************************************************************)
Tasks == {<<c, i>> \in Callers \X MaxIdx : task[c][i].pc # "none"}

\* C1: from a closed breaker, exactly FAILURE_THRESHOLD consecutive
\* _record_failure calls make _is_open return true while less than
\* RECOVERY_SECONDS have passed since the trip; with fewer failures, or none,
\* _is_open returns false.
C1_OpensAtThreshold ==
    /\ \A u \in Urls :
        /\ (nfail[u] = FAILURE_THRESHOLD /\ now - trippedAt[u] < RECOVERY_SECONDS)
              => IsOpenRet(circuit, u, now)
        /\ nfail[u] < FAILURE_THRESHOLD => ~IsOpenRet(circuit, u, now)
    /\ last.op = "is_open" =>
        /\ (nfail[last.url] = FAILURE_THRESHOLD
              /\ now - trippedAt[last.url] < RECOVERY_SECONDS) => last.ret
        /\ nfail[last.url] < FAILURE_THRESHOLD => ~last.ret

\* an _is_open call answered true right after exactly three failures, and one
\* answered false after two
C1_Witness ==
    /\ last.op = "is_open" /\ last.ret
    /\ nfail[last.url] = FAILURE_THRESHOLD
    /\ now > 0

\* C2: _record_success at any point removes all breaker state of its source
\* (no failure count, the next _is_open is false, no circuit_status entry) and
\* leaves the state of every other source as it was.
C2_SuccessClears ==
    last.op = "record_success" =>
        /\ last.url \notin DOMAIN circuit
        /\ ~IsOpenRet(circuit, last.url, now)
        /\ last.url \notin DOMAIN CircuitStatus(circuit)
        /\ \A v \in Urls \ {last.url} :
              /\ v \in DOMAIN circuit <=> v \in DOMAIN last.pre
              /\ v \in DOMAIN circuit => circuit[v] = last.pre[v]

\* a success recorded on a breaker that was open
C2_Witness ==
    /\ last.op = "record_success"
    /\ last.url \in DOMAIN last.pre
    /\ last.pre[last.url].failures >= FAILURE_THRESHOLD

\* C3: after the recovery window exactly one probe is let through: every
\* _is_open check made while the probe's outcome is not yet recorded returns
\* true.
C3_ExactlyOneProbe ==
    (last.op = "is_open" /\ last.pending) => last.ret

\* C4: a fetch whose _is_open reported open ends at once in an error outcome
\* with no records and duration 0, with no HTTP request issued and no
\* semaphore slot taken; that outcome is what fetch_sources returns for it.
C4_OpenShortCircuits ==
    /\ (last.op = "is_open" /\ last.ret) =>
          /\ task[last.caller][last.idx].pc = "done"
          /\ task[last.caller][last.idx].rejected
          /\ sem[last.caller] = last.semPre
    /\ \A c \in Callers, i \in MaxIdx :
          task[c][i].rejected =>
              /\ task[c][i].pc = "done"
              /\ task[c][i].outcome.error \notin {None, ""}
              /\ task[c][i].outcome.records = <<>>
              /\ task[c][i].outcome.duration_ms = 0
              /\ task[c][i].attempts = 0
              /\ task[c][i].resp = ""
              /\ ~task[c][i].slot
    /\ last.op = "return" =>
          \A i \in DOMAIN last.results :
              last.tasks[i].rejected =>
                  /\ last.results[i].error \notin {None, ""}
                  /\ last.results[i].records = <<>>
                  /\ last.results[i].duration_ms = 0

\* fetch_sources returns a rejected outcome next to a fetched one
C4_Witness ==
    /\ last.op = "return"
    /\ \E i \in DOMAIN last.results : last.tasks[i].rejected
    /\ \E i \in DOMAIN last.results : ~last.tasks[i].rejected

\* the outcome the response kind of a source calls for, whatever its siblings did
ExpectedOutcome(url, t) ==
    [url         |-> url,
     source_key  |-> url[Len(url)],
     records     |-> IF t.rejected THEN <<>>
                     ELSE IF t.resp = "ok_list" THEN <<"r1", "r2">>
                     ELSE IF t.resp = "ok_obj" THEN <<"r1">>
                     ELSE <<>>,
     duration_ms |-> IF t.resp \in {"ok_list", "ok_obj"} THEN t.outcome.duration_ms ELSE 0,
     error       |-> IF t.rejected THEN "Circuit open - upstream unavailable"
                     ELSE IF t.resp \in {"ok_list", "ok_obj"} THEN None
                     ELSE ErrorText(t.resp)]

\* C5: fetch_sources never raises and returns one outcome per input URL, in
\* input order, for every mix of per-source results; an outcome with an error
\* has no records; each outcome is the one its own source's result calls for.
C5_CompleteOutcomes ==
    /\ last.op # "raise"
    /\ last.op = "return" =>
          /\ DOMAIN last.results = 1..Len(DATA_SOURCES)
          /\ \A i \in DOMAIN last.results :
                /\ last.results[i].url = DATA_SOURCES[i]
                /\ last.results[i].error # None => last.results[i].records = <<>>
                /\ last.results[i] = ExpectedOutcome(DATA_SOURCES[i], last.tasks[i])

\* a batch returned with a failed source next to a successful one
C5_Witness ==
    /\ last.op = "return"
    /\ \E i, j \in DOMAIN last.results :
          /\ last.tasks[i].resp = "bad_json"
          /\ last.results[j].error = None /\ last.results[j].records # <<>>

InFlight == {<<c, i>> \in Callers \X MaxIdx : task[c][i].pc = "inflight"}

\* C6: at every moment at most CONCURRENCY_LIMIT upstream requests are in
\* flight in the process, also when several refreshes run at the same time.
C6_GlobalCap ==
    Cardinality(InFlight) <= CONCURRENCY_LIMIT

\* C7: inside one fetch an attempt is retried only after a timeout or a
\* connection error; a fetch makes at most MAX_RETRIES attempts; a non-2xx
\* response ends the fetch as a failure with the attempt that received it.
C7_RetryOnlyTransient ==
    /\ \A c \in Callers, i \in MaxIdx :
          /\ task[c][i].attempts <= MAX_RETRIES
          /\ task[c][i].retriedAfter \subseteq {"timeout", "connect_error"}
          /\ task[c][i].resp \in {"http_error", "bad_json"} =>
                /\ task[c][i].pc = "done"
                /\ task[c][i].outcome.error # None
    /\ last.op \in {"record_failure", "record_success"} =>
          /\ last.task.attempts <= MAX_RETRIES
          /\ last.task.retriedAfter \subseteq {"timeout", "connect_error"}
    /\ (last.op = "record_failure" /\ last.kind \in {"timeout", "connect_error"}) =>
          last.task.attempts = MAX_RETRIES

\* a fetch given up after MAX_RETRIES attempts that timed out, and one ended
\* by a non-2xx response on a retry
C7_Witness ==
    /\ last.op = "record_failure"
    /\ last.kind = "http_error"
    /\ last.task.attempts = 2
    /\ last.task.retriedAfter = {"timeout"}

(***************************************************************************)
(* Properties of the cache                                                 *)
(***************************************************************************)
\* a cache_get that returned from a reachable store, of a key whose last
\* write was a cache_set that nothing has touched since
GetAfterSet ==
    /\ last.op = "cache_get"
    /\ last.raised = ""
    /\ last.avail
    /\ lastSet[last.key] # NoSet

\* what cache_get has to return elapsed seconds after cache_set(k, value, ttl)
Expected(value, ttl, elapsed) ==
    IF elapsed < ttl THEN [value |-> value, is_stale |-> FALSE]
    ELSE IF elapsed < ttl + CACHE_STALE_GRACE THEN [value |-> value, is_stale |-> TRUE]
    ELSE CacheMiss

C9_DegradesWhenUnavailable ==
    last.op \in {"cache_get", "cache_set", "cache_delete", "invalidate_pattern"} =>
        /\ last.raised = ""
        /\ ~last.avail =>
              CASE last.op = "cache_get"          -> last.ret = CacheMiss
                [] last.op = "invalidate_pattern" -> last.ret = 0
                [] OTHER                          -> ~last.changed

\* an invalidate_pattern that returned from a reachable store and had no writer
\* next to it
InvalidatedAlone ==
    /\ last.op = "invalidate_pattern"
    /\ last.raised = ""
    /\ last.avail
    /\ ~last.dirty

\* C10: invalidate_pattern(p) without a concurrent writer removes every key that
\* matches p, values and sentinels alike, removes no other key, and returns the
\* number of keys it removed; after 'agg:v2:*' a cache_get of a build_key key misses
C10_InvalidateRemovesAndCounts ==
    /\ [](InvalidatedAlone =>
            /\ \A k \in AllKeys : GlobMatch(last.pattern, k) => ~Exists(store, k, now)
            /\ last.ret = last.removed
            /\ last.pattern = AggPattern => CacheGetRet(store, KAgg, now) = CacheMiss)
    /\ [][(scan.pc = "del" /\ scan' # NoScan /\ scan'.deleted = scan.deleted + 1) =>
            \A k \in DOMAIN store \ DOMAIN store' : GlobMatch(scan.pattern, k)]_vars

(***************************************************************************)
(* Properties of the reconciler, checked under SpecUpsert                  *)
(***************************************************************************)
\* upsert_source has returned in the session of the caller
Upserted == last.op = "upsert_source" /\ last.raised = ""

\* the rows of the source the session sees after the call, and their ids
PostRows == RowsOf(tx["manual"].rows, last.source_key)
PreRows == RowsOf(last.pre, last.source_key)
IdsOf(rows) == {row.external_id : row \in rows} \ {NoId}

\* the rows the fetched records would be stored as
FetchedRows ==
    {DataRecord(last.source_key, last.url, last.records[i]) : i \in 1..Len(last.records)}

\* no external id occurs twice among the records
NoRepeatedId(records) ==
    \A i, j \in 1..Len(records) :
        (i # j /\ ExtId(records[i]) # NoId) => ExtId(records[i]) # ExtId(records[j])

\* C11: after upsert_source the stored rows of the source key are exactly the
\* record set of the fetch: every fetched record is stored with its payload and
\* no row remains that is not in the fetch, whatever was stored before (stated
\* here for the fetches that repeat no external id)
C11_StoreMirrorsFetch ==
    (Upserted /\ NoRepeatedId(last.records)) => PostRows = FetchedRows

\* rows the call deleted, rows whose payload and checksum it replaced, and the
\* number of rows it inserted (rows without external id are never deleted)
DeletedRows == {row \in PreRows : row.external_id # NoId /\ row.external_id \notin IdsOf(PostRows)}
ReplacedRows == {row \in PreRows : row.external_id \in IdsOf(PostRows) /\ row \notin PostRows}
InsertedCount ==
    BagCardinality(tx["manual"].rows) - BagCardinality(last.pre) + Cardinality(DeletedRows)

\* the stored rows {1:A, 2:B} and the fetch [{id 1, A}, {id 3, C}] of the example
ExampleStored == SetToBag({DataRecord(SourceKey(U1), U1, Rec(1, "A")),
                           DataRecord(SourceKey(U1), U1, Rec(2, "B"))})
ExampleFetch == <<Rec(1, "A"), Rec(3, "C")>>
ExampleAfter == SetToBag({DataRecord(SourceKey(U1), U1, Rec(1, "A")),
                          DataRecord(SourceKey(U1), U1, Rec(3, "C"))})

\* C12, as stated: upsert_source returns (number of fetched records, changedCount)
\* with changedCount the number of rows inserted plus the number of rows whose
\* payload and checksum were replaced
C12_ChangedCount ==
    Upserted => last.ret = <<Len(last.records), InsertedCount + Cardinality(ReplacedRows)>>

\* C12, amended: the same for a fetch in which no external id occurs twice
\* (changedCount counts records, so a row rewritten by two records of one fetch
\* counts twice); for {1:A, 2:B} and [{id 1, A}, {id 3, C}] the call inserts id 3,
\* deletes id 2, leaves id 1 and returns changedCount 1
C12_ChangedCountDistinctIds ==
    /\ (Upserted /\ NoRepeatedId(last.records)) =>
          last.ret = <<Len(last.records), InsertedCount + Cardinality(ReplacedRows)>>
    /\ (last.op = "upsert_source" /\ last.pre = ExampleStored /\ last.records = ExampleFetch) =>
          /\ last.raised = ""
          /\ tx["manual"].rows = ExampleAfter
          /\ last.ret = <<2, 1>>

\* the example of C12 has run
C12_Witness ==
    /\ Upserted
    /\ last.pre = ExampleStored
    /\ last.records = ExampleFetch
    /\ last.ret[2] = 1

\* C14: a fetched record whose external id, whatever its value, has a stored row
\* of the source updates that row in place when the checksum differs (counted
\* once, no row inserted, row count unchanged) and leaves it untouched and
\* uncounted when the checksum is the same
C14_UpdateInPlace ==
    (last.op = "upsert_source" /\ NoRepeatedId(last.records)) =>
        \A i \in 1..Len(last.records) :
            LET r == last.records[i]
            IN  (ExtId(r) # NoId /\ ExtId(r) \in IdsOf(PreRows)) =>
                  /\ last.raised = ""
                  /\ DataRecord(last.source_key, last.url, r) \in PostRows
                  /\ Cardinality({row \in PostRows : row.external_id = ExtId(r)}) = 1
                  /\ last.ret[2] =
                        Cardinality({j \in 1..Len(last.records) :
                            DataRecord(last.source_key, last.url, last.records[j]) \notin PreRows})

(***************************************************************************)
(* Properties of refresh_data, checked under SpecRefresh                   *)
(***************************************************************************)
\* a refresh_data call has just returned its summary
Refreshed == last.op = "refresh_data" /\ last.raised = ""

\* every source of the run answered successfully
AllOk(outcomes) == \A i \in 1..Len(outcomes) : outcomes[i].error = None

\* the run that just returned got the responses of the run before it, all successful
RepeatedRefresh ==
    /\ Refreshed
    /\ last.prev.outcomes = last.outcomes
    /\ AllOk(last.outcomes)

\* C13: when refresh_data runs twice in a row with the same successful
\* responses, whatever their content, the second run reports records_changed = 0
\* and leaves the stored records as the first run left them.
C13_RepeatedRefreshIdempotent ==
    RepeatedRefresh =>
        /\ last.summary.records_changed = 0
        /\ table = last.prev.table

\* the fetcher reported a failure for the source of outcome o
FailedFetch(o) == o.error # None

\* the number of failed sources among outcomes
FailureCount(outcomes) ==
    Cardinality({i \in 1..Len(outcomes) : FailedFetch(outcomes[i])})

\* the summary of a run counts exactly its failed sources as failed
CountsFailures ==
    Refreshed =>
        /\ last.summary.sources_refreshed =
              Len(last.outcomes) - FailureCount(last.outcomes)
        /\ Len(last.summary.errors) = FailureCount(last.outcomes)

\* the commit of caller c's run leaves the rows of its failed sources alone
CommitKeepsFailedSources(c) ==
    (rf[c].pc = "reconcile" /\ rf'[c].pc = "invalidate") =>
        \A i \in 1..Len(rf[c].results) :
            FailedFetch(rf[c].results[i]) =>
                RowsOf(table', rf[c].results[i].source_key)
                    = RowsOf(table, rf[c].results[i].source_key)

\* C15: of n sources of which f fail, refresh_data reports n - f sources
\* refreshed and f errors, and its commit leaves the stored records of the
\* failed sources as they were.
C15_PartialFailure ==
    /\ []CountsFailures
    /\ [][\A c \in Callers : CommitKeepsFailedSources(c)]_vars

\* caller c's run commits in this step
Commits(c) == rf[c].pc = "reconcile" /\ rf'[c].pc = "invalidate"

\* caller c's run ends with an exception before its commit succeeded
FailsBeforeCommit(c) == rf[c].pc = "reconcile" /\ rf'[c].pc = "idle"

\* C16: the record and audit mutations of one refresh_data call become visible
\* in storage all together at its commit, and never otherwise; a run that
\* fails before its commit leaves nothing visible and drops what it prepared.
C16_AtomicVisibility ==
    /\ [][(table' # table \/ audits' # audits) =>
              \E c \in Callers :
                  /\ Commits(c)
                  /\ table' = tx[c].rows
                  /\ audits' = audits \o tx[c].audits]_vars
    /\ [][\A c \in Callers :
              FailsBeforeCommit(c) =>
                  (table' = table /\ audits' = audits /\ tx'[c] = NoTx)]_vars

\* a commit has just published changed rows together with two audit entries
C16_Witness ==
    /\ last.op = "commit"
    /\ BagCardinality(table) >= 1
    /\ Len(audits) >= 2
    /\ audits[Len(audits)].status = "ok"

\* C17: whatever the sources answered, a refresh_data call ends by returning
\* its summary and never with an exception of its own, as long as the
\* database and the cache answer.
C17_AlwaysReturnsSummary ==
    last.op = "refresh_data" => last.raised \in {"", "OperationalError", "CacheError"}

\* the timer fired while a scheduled refresh was running
TickWhileRunning == last.op = "tick" /\ last.running >= MAX_INSTANCES

\* C18: at most one scheduler-triggered refresh runs at a time; a tick that
\* fires while one is running is skipped: it starts nothing, then or later
\* (a scheduled refresh only ever starts in the step of a tick that ran).
C18_SingleScheduledRefresh ==
    /\ [](instances <= MAX_INSTANCES)
    /\ [](TickWhileRunning => (last.skipped /\ instances = last.running))
    /\ [][(last'.op = "tick" /\ last'.skipped) => rf' = rf]_vars
    /\ [][(rf["scheduler"].pc # "fetching" /\ rf'["scheduler"].pc = "fetching") =>
              (last'.op = "tick" /\ ~last'.skipped /\ last'.running = 0)]_vars

\* a tick was skipped while the scheduled refresh was reconciling
C18_Witness ==
    /\ TickWhileRunning
    /\ last.skipped
    /\ rf["scheduler"].pc = "reconcile"

(***************************************************************************)
(* Properties of the aggregate reads, checked under SpecRead               *)
(***************************************************************************)
\* a get_aggregate_summary call has just returned its response
ReadReturned == last.op = "get_aggregate_summary" /\ last.raised = ""

\* C19: a get_aggregate_summary call that starts after a refresh has committed
\* and invalidated returns an aggregate of storage as of that commit or later,
\* never one computed from the rows before it, whatever reads and
\* revalidations were in flight during the refresh.
C19_NoPreRefreshAggregate == ReadReturned => last.total >= last.floor

\* a read has just been answered from an entry beyond its primary TTL
StaleRead == ReadReturned /\ last.cache_status = "STALE"

\* the step is the failure of revalidation task j
RevalidationFails(j) ==
    /\ rv[j].pc = "query"
    /\ last'.op = "_revalidate_aggregate"
    /\ last'.task = j
    /\ last'.failed

\* C20: a stale read returns the cached aggregate marked STALE while the
\* revalidation it spawned is still pending; a revalidation that fails raises
\* nothing and leaves the cached entry as it was, and every stale read, also
\* one after a failed revalidation, spawns a revalidation.
C20_StaleWhileRevalidate ==
    /\ [](StaleRead =>
            /\ last.spawned # 0
            /\ rv[last.spawned].pc = "query"
            /\ Exists(store, KAgg, now)
            /\ ~Exists(store, FreshKey(KAgg), now)
            /\ last.total = JsonLoads(store[KAgg].val).v)
    /\ [][\A j \in 1..MaxTasks :
              RevalidationFails(j) =>
                  (store' = store /\ last'.raised = "" /\ rv'[j] = NoRevalidation)]_vars

\* a second stale read spawned a revalidation after the first one's had failed
C20_Witness ==
    /\ StaleRead
    /\ stats.stale_hits >= 2
    /\ last.spawned = 1
    /\ \A j \in 2..MaxTasks : rv[j].pc = "none"

\* the revalidation tasks of the aggregate key that have not finished
InFlightRevalidations == {j \in 1..MaxTasks : rv[j].pc # "none"}

\* C21: at any time at most one background revalidation is in flight for a
\* cache key, however many stale reads of the key there were.
C21_SingleFlightRevalidation == Cardinality(InFlightRevalidations) <= 1

(***************************************************************************)
(* Properties of build_key, checked under SpecKey                          *)
(***************************************************************************)
\* C22: two build_key calls return the same key when their sequences of parts
\* are the same, and different keys when the sequences differ in a value, in
\* the type of a value or in the number of parts.
C22_BuildKeySeparates ==
    last.op = "build_key" =>
        /\ (last.a = last.b => last.ka = last.kb)
        /\ (last.a # last.b => last.ka # last.kb)

(***************************************************************************)
(* The sentinel keys of the store, checked under SpecInvalidate            *)
(***************************************************************************)
\* C23: in every state of the store, whatever cache_set, cache_delete,
\* invalidate_pattern and expiry did, the ":fresh" sentinel of a key exists
\* only if the value key exists.
C23_SentinelOnlyWithValue ==
    \A k \in CacheKeys : Exists(store, FreshKey(k), now) => Exists(store, k, now)

(***************************************************************************)
(* Failed fetches and audit entries, checked under SpecRefresh             *)
(***************************************************************************)
\* the step is the pass of caller c's loop over the outcome of a failed fetch
HandlesFailedFetch(c) ==
    /\ rf[c].pc = "reconcile"
    /\ rf[c].i <= Len(rf[c].results)
    /\ FailedFetch(rf[c].results[rf[c].i])
    /\ rf'[c].pc = "reconcile"
    /\ rf'[c].i = rf[c].i + 1

\* C24: the outcome of a terminally failed fetch is handled as an error
\* whatever its error text, the empty text included: the run notes an error for
\* the source, prepares an audit entry of status "error" and skips the
\* reconciliation, so the rows of the source stay as they are.
C24_FailureTreatedAsError ==
    [][\A c \in Callers :
          HandlesFailedFetch(c) =>
              /\ tx'[c].rows = tx[c].rows
              /\ Len(rf'[c].errors) = Len(rf[c].errors) + 1
              /\ tx'[c].audits[Len(tx'[c].audits)].status = "error"]_vars

\* the audit entry a describes the outcome o of a run triggered by c
AuditMatches(a, o, c) ==
    /\ a.source_url = o.url
    /\ a.source_key = o.source_key
    /\ a.triggered_by = c
    /\ IF FailedFetch(o)
       THEN a.status = "error" /\ a.error_detail = o.error
       ELSE /\ a.status = "ok"
            /\ a.records_fetched = Len(o.records)
            /\ a.records_changed <= Len(o.records)
            /\ a.duration_ms = o.duration_ms

\* C25: the commit of a refresh_data call appends exactly one audit entry per
\* configured source, in the order of the sources: of status "error" with the
\* error detail for a failed outcome, of status "ok" with the counts and the
\* duration for a successful one, tagged with the trigger of the call; and no
\* step changes or removes an audit entry that is stored.
C25_OneAuditPerSource ==
    /\ [][\A c \in Callers :
              Commits(c) =>
                  /\ Len(audits') = Len(audits) + Len(DATA_SOURCES)
                  /\ \A i \in Idx :
                        AuditMatches(audits'[Len(audits) + i], rf[c].results[i], c)]_vars
    /\ [][Len(audits') >= Len(audits) /\ SubSeq(audits', 1, Len(audits)) = audits]_vars

(***************************************************************************)
(* What the breaker is told and what it writes, checked under Spec         *)
(***************************************************************************)
\* state["failures"] of url u, 0 when the breaker holds no state for it
FailuresOf(circ, u) == IF u \in DOMAIN circ THEN circ[u].failures ELSE 0

\* the fetch of task <<c, i>> ends in this step
Terminates(c, i) == task[c][i].pc = "inflight" /\ task'[c][i].pc = "done"

\* an attempt of task <<c, i>> fails in this step and will be retried
Retries(c, i) == task[c][i].pc = "inflight" /\ task'[c][i].pc = "backoff"

\* a fetch that passed the breaker tells it exactly one thing, when it ends
ReportsOnce ==
    [][\A c \in Callers, i \in Idx :
          LET u == DATA_SOURCES[i] IN
          /\ Terminates(c, i) =>
                \/ /\ task'[c][i].outcome.error = None
                   /\ last'.op = "record_success" /\ last'.url = u
                   /\ circuit' = RecordSuccess(circuit, u)
                \/ /\ task'[c][i].outcome.error # None
                   /\ last'.op = "record_failure" /\ last'.url = u
                   /\ FailuresOf(circuit', u) = FailuresOf(circuit, u) + 1
          /\ Retries(c, i) => circuit' = circuit]_vars

\* the breaker only hears of fetches that end
OnlyFetchesReport ==
    [][last'.op \in {"record_success", "record_failure"} =>
          \E c \in Callers, i \in Idx : Terminates(c, i)]_vars

\* the failure count never exceeds the failed fetches since the last success
CountsFetches == \A u \in Urls : FailuresOf(circuit, u) <= nfail[u]

\* the failure count is the number of failed fetches since the last success
CountIsFetches ==
    \A u \in Urls : nfail[u] <= FAILURE_THRESHOLD => FailuresOf(circuit, u) = nfail[u]

\* C26 as stated: one report per fetch that passed the breaker, none per
\* retried attempt, and a failure count that is the number of consecutive
\* failed fetches.
C26_OneReportPerFetch == ReportsOnce /\ OnlyFetchesReport /\ []CountIsFetches

\* C26: every fetch that passed the breaker reports once, when it ends:
\* _record_success if it succeeded, _record_failure, which raises the count by
\* one, if it failed; a retried attempt reports nothing, so the failure count
\* never exceeds the number of consecutive failed fetches (the half-open
\* transition can leave it below).
C26_OneReportPerFetchUpTo == ReportsOnce /\ OnlyFetchesReport /\ []CountsFetches

\* a fetch that was retried to the last attempt recorded its one failure
C26_Witness ==
    /\ last.op = "record_failure"
    /\ last.task.retriedAfter # {}
    /\ last.task.attempts = MAX_RETRIES
    /\ FailuresOf(circuit, last.url) = FailuresOf(last.pre, last.url) + 1

\* state["opened_at"] of url u, 0.0 when the breaker holds no state for it
OpenedAtOf(circ, u) == IF u \in DOMAIN circ THEN circ[u].opened_at ELSE 0

\* C27: _record_failure writes the trip timestamp only when the count goes
\* from FAILURE_THRESHOLD - 1 to FAILURE_THRESHOLD; a failure recorded at a
\* count that is at or above the threshold already leaves the timestamp as
\* it was.
C27_TripOnlyOnCrossing ==
    last.op = "record_failure" =>
        IF FailuresOf(last.pre, last.url) + 1 = FAILURE_THRESHOLD
        THEN OpenedAtOf(circuit, last.url) = now
        ELSE OpenedAtOf(circuit, last.url) = OpenedAtOf(last.pre, last.url)

\* the _is_open call that just returned made the half-open transition
HalfOpened ==
    /\ last.op = "is_open"
    /\ ~last.ret
    /\ FailuresOf(last.pre, last.url) >= FAILURE_THRESHOLD

\* C28: the half-open transition of _is_open lowers the failure count by
\* exactly one, whatever count at or above the threshold it finds.
C28_HalfOpenDecrementsByOne ==
    HalfOpened => FailuresOf(circuit, last.url) = FailuresOf(last.pre, last.url) - 1

\* C29: _is_open writes breaker state only in the half-open transition, and
\* there only the failure count of its source: a call that returns true and a
\* call on a source below the threshold leave every count and timestamp as
\* they were, so a fetch rejected by the open breaker ends without touching
\* the breaker.
C29_IsOpenReadOnly ==
    last.op = "is_open" =>
        /\ (last.ret \/ FailuresOf(last.pre, last.url) < FAILURE_THRESHOLD)
              => circuit = last.pre
        /\ DOMAIN circuit = DOMAIN last.pre
        /\ \A u \in DOMAIN circuit :
              /\ circuit[u].opened_at = last.pre[u].opened_at
              /\ u # last.url => circuit[u] = last.pre[u]
        /\ task[last.caller][last.idx].rejected => circuit = last.pre

\* a fetch was rejected by the open breaker, a while after the trip
C29_Witness ==
    /\ last.op = "is_open"
    /\ last.ret
    /\ task[last.caller][last.idx].rejected
    /\ FailuresOf(circuit, last.url) >= FAILURE_THRESHOLD
    /\ now > OpenedAtOf(circuit, last.url)

\* C30: in every reachable state of the table, whatever refreshes ran, one after
\* the other or side by side, manual or scheduled, and whatever lists were
\* fetched, no two stored rows have the same source key and the same external
\* id when the external id is present
C30_UniqueSourceExt ==
    \A row \in BagToSet(table) :
        row.external_id # NoId =>
            /\ table[row] = 1
            /\ \A other \in BagToSet(table) :
                  (other.source_key = row.source_key /\ other.external_id = row.external_id)
                      => other = row

\* the index has refused the flush of one refresh while the other refresh is on
\* its way, and a row with an external id is stored
C30_Witness ==
    /\ last.op = "refresh_data"
    /\ last.raised = "IntegrityError"
    /\ \E row \in BagToSet(table) : row.external_id # NoId
    /\ \E d \in Callers : rf[d].pc # "idle"

\* the positions of the records without an external id: dicts without "id"
\* and records that are no dicts
IdLessAt(records) == {i \in 1..Len(records) : ExtId(records[i]) = NoId}

\* how often r occurs in records
Occurrences(records, r) == Cardinality({i \in 1..Len(records) : records[i] = r})

\* C31: a fetched record without an external id, dict or not, is inserted as
\* a new row and counted as changed in every upsert_source it appears in: its
\* pass of the loop appends a row and adds one to changed whatever is stored,
\* rewrites no stored row, and the index never refuses its INSERT; a call
\* that returns has stored one more copy per occurrence and kept every stored
\* row without external id, and a fetch of such records alone never raises.
C31_IdLessAlwaysInserted ==
    last.op = "upsert_source" =>
        LET sk == last.source_key
            post == tx["manual"].rows
            existing == Existing(last.pre, sk)
            acc == [existing |-> existing, to_insert |-> <<>>, changed |-> 0]
        IN  /\ \A i \in IdLessAt(last.records) :
                  LET r == last.records[i]
                      row == DataRecord(sk, last.url, r)
                  IN  /\ ReconcileStep(acc, sk, last.url, r) =
                             [acc EXCEPT !.to_insert = <<row>>, !.changed = 1]
                      /\ ~UniqueViolation(last.pre, <<row, row>>)
                      /\ Upserted =>
                            CopiesIn(row, post) =
                               CopiesIn(row, last.pre) + Occurrences(last.records, r)
            /\ Upserted =>
                  /\ last.ret[2] >= Cardinality(IdLessAt(last.records))
                  /\ \A row \in PreRows :
                        row.external_id = NoId => CopiesIn(row, post) >= CopiesIn(row, last.pre)
            /\ IdLessAt(last.records) = 1..Len(last.records) =>
                  /\ last.raised = ""
                  /\ last.ret = <<Len(last.records), Len(last.records)>>

\* a record without an external id is fetched again while its row is stored,
\* and is stored a second time
C31_Witness ==
    /\ Upserted
    /\ \E i \in IdLessAt(last.records) :
          LET row == DataRecord(last.source_key, last.url, last.records[i])
          IN  /\ CopiesIn(row, last.pre) >= 1
              /\ CopiesIn(row, tx["manual"].rows) >= 2

\* the return of get_aggregate_summary with cache status st in the next state
Returns(st) ==
    /\ last'.op = "get_aggregate_summary"
    /\ last'.raised = ""
    /\ last'.cache_status = st

\* C32: get_aggregate_summary returns HIT exactly when the value of the
\* aggregate key exists together with its sentinel, STALE exactly when the
\* value exists without the sentinel, and otherwise goes on as a MISS; HIT and
\* STALE return the cached aggregate and start no query of the call, a MISS
\* computes the aggregate from the stored rows (0 for none), writes it to
\* the cache and returns it; every call adds one to exactly one of hits,
\* stale_hits and misses, the one of its status.
C32_StatusMatchesCache ==
    /\ [][Reads' # Reads =>
             LET v == Exists(store, KAgg, now)
                 f == Exists(store, FreshKey(KAgg), now)
             IN  /\ v /\ f =>
                       /\ stats' = [stats EXCEPT !.hits = @ + 1]
                       /\ Returns("HIT")
                       /\ last'.total = JsonLoads(store[KAgg].val).v
                       /\ rd' = rd
                 /\ v /\ ~f =>
                       /\ stats' = [stats EXCEPT !.stale_hits = @ + 1]
                       /\ Returns("STALE")
                       /\ last'.total = JsonLoads(store[KAgg].val).v
                       /\ rd' = rd
                 /\ ~v =>
                       /\ stats' = [stats EXCEPT !.misses = @ + 1]
                       /\ rd.pc = "idle" /\ rd'.pc = "query"
                       /\ last'.op # "get_aggregate_summary"
                 /\ store' = store /\ table' = table]_vars
    /\ [][(Returns("HIT") \/ Returns("STALE")) => Reads' = Reads + 1]_vars
    /\ [][(rd.pc = "query" /\ rd'.pc = "set") =>
             /\ rd'.response = AggregateDump(table)
             /\ rd'.response.v = BagCardinality(table)
             /\ stats' = stats]_vars
    /\ [][Returns("MISS") =>
             /\ rd.pc = "set" /\ rd'.pc = "idle"
             /\ last'.total = rd.response.v
             /\ CacheGetRet(store', KAgg, now) =
                    [value |-> JsonLoads(JsonDumps(rd.response)), is_stale |-> FALSE]
             /\ stats' = stats]_vars
    /\ [](ReadReturned => last.cache_status \in {"HIT", "STALE", "MISS"})

\* a read is answered STALE after a read that missed and a read that hit
C32_Witness ==
    /\ StaleRead
    /\ stats = [hits |-> 1, misses |-> 1, stale_hits |-> 1]

\* the entry of the aggregate key is fresh and holds the aggregate of the
\* stored rows
FreshCurrent ==
    /\ Exists(store, KAgg, now)
    /\ Exists(store, FreshKey(KAgg), now)
    /\ JsonLoads(store[KAgg].val).v = SumCnt(SourceSummary(table))

\* storage failed a revalidation, or a refresh is committing and invalidating
Disturbed ==
    \/ last.op = "_revalidate_aggregate" /\ last.failed
    \/ last.op = "commit"
    \/ rf["manual"].pc # "idle"
    \/ scan.pc # "idle"

\* task j of _revalidate_aggregate is spawned or takes a step
RevalidationStep(j) == rv'[j] # rv[j]

\* C33: after a stale read has spawned a revalidation, the entry of the
\* aggregate key becomes fresh again with the aggregate of the stored rows,
\* so that a later read is a HIT on it, unless storage fails the revalidation
\* or a refresh commits and invalidates meanwhile; spawning and running a
\* revalidation calls no source and leaves the stored rows and the breaker
\* as they are.
C33_RevalidationRestoresFreshness ==
    /\ StaleRead ~> (FreshCurrent \/ Disturbed)
    /\ [][(\E j \in 1..MaxTasks : RevalidationStep(j)) =>
             /\ table' = table
             /\ circuit' = circuit
             /\ callPc' = callPc
             /\ task' = task
             /\ fetched' = fetched]_vars
    /\ [][(FreshCurrent /\ Reads' # Reads) =>
             (Returns("HIT") /\ last'.total = SumCnt(SourceSummary(table)))]_vars

\* the revalidation a stale read spawned has written the entry, which is
\* fresh and holds the aggregate of the stored rows
C33_Witness ==
    /\ last.op = "_revalidate_aggregate"
    /\ ~last.failed
    /\ stats.stale_hits >= 1
    /\ table # EmptyBag
    /\ FreshCurrent

\* refresh_data has returned and every source had answered
AllSucceeded ==
    /\ last.op = "refresh_data"
    /\ last.raised = ""
    /\ \A i \in 1..Len(last.outcomes) : last.outcomes[i].error = None

\* C34: whatever URLs are configured, reconciling the records of one URL
\* leaves the rows fetched from another URL alone: after a refresh in which
\* every source succeeded, every record of every source is stored as a row of
\* its own URL.
C34_SourcesKeptApart ==
    AllSucceeded =>
        \A i \in 1..Len(last.outcomes) :
            \A n \in 1..Len(last.outcomes[i].records) :
                \E row \in BagToSet(table) :
                    /\ row.source_url = last.outcomes[i].url
                    /\ row.payload = last.outcomes[i].records[n]

\* the breaker of u has tripped and not been cleared
Tripped(u) == FailuresOf(circuit, u) >= FAILURE_THRESHOLD

\* a fetch of u got through and succeeded: the state of u is popped
ClosedBySuccess(u) ==
    /\ last.op = "record_success"
    /\ last.url = u
    /\ u \notin DOMAIN circuit

\* the upstream of u failed a fetch once more
FailedAgain(u) == last.op = "record_failure" /\ last.url = u

\* the clock has stopped before the recovery window of u was over, or before
\* the backoff of a retry was
ClockStopped(u) ==
    /\ now >= MaxTime
    /\ \/ now - OpenedAtOf(circuit, u) <= RECOVERY_SECONDS
       \/ \E c \in Callers, i \in Idx : task[c][i].pc = "backoff" /\ task[c][i].wake > now

\* C35: a tripped breaker does not stay open once its upstream is healthy:
\* while the clock advances and refreshes keep coming, a fetch of the source
\* gets through and its success pops the state of the source, from whatever
\* failure count, unless the upstream fails a fetch again.
C35_BreakerCloses ==
    \A u \in Urls : Tripped(u) ~> (ClosedBySuccess(u) \/ FailedAgain(u) \/ ClockStopped(u))

\* a breaker that had counted more failures than the threshold is closed by
\* the success of the fetch the half-open transition let through
C35_Witness ==
    /\ last.op = "record_success"
    /\ last.url \notin DOMAIN circuit
    /\ FailuresOf(last.pre, last.url) = FAILURE_THRESHOLD - 1
    /\ now - OpenedAtOf(last.pre, last.url) > RECOVERY_SECONDS

====
